---- MODULE Spec2Model ----
(***************************************************************************)
(* Notarization fork resolution, fractional price rounding, reserve        *)
(* transfer scans, import submission and initial currency state of         *)
(* src/rpc/pbaasrpc.cpp.                                                   *)
(*                                                                         *)
(* GetNotarizationData builds the fork index (vtx, forks, lastConfirmed,   *)
(* bestChain) of a currency from the confirmed and pending finalization    *)
(* entries of the address index.                                           *)
(*                                                                         *)
(* An output reference (CUTXORef) is modelled by its transaction hash, a   *)
(* natural number; the output number is folded into that identity.         *)
(* Indices held in forks are 0-based as in the code; vtx is a TLA+         *)
(* sequence, so the record at index i is vtx[i + 1].                       *)
(*                                                                         *)
(* A 64-bit amount (CAmount) and a 256-bit number (arith_uint256) are      *)
(* sequences of 8-bit limbs, least significant first, without leading zero *)
(* limbs; a CAmount is held as its two's complement bit pattern.           *)
(***************************************************************************)
EXTENDS Integers, Sequences, FiniteSets, TLC

\* ---------------------------------------------------------------- bounds
MaxPending == 3          \* entries of the pending finalization index
MaxConfirmed == 2        \* entries of the confirmed finalization index
MaxPower == 1            \* largest compact chain power of a proof root
MaxBlockHeight == 2      \* largest chain height / index entry height

\* ------------------------------------------------------ data of the ledger
\* uint256().IsNull(): the null hash of CUTXORef() and of a finalization
\* that sits on the same transaction as its notarization
NullHash == 0

\* hash of the notarization output that pending entry k finalizes
PendingHash(k) == k

\* hash of the notarization output that confirmed entry j finalizes
ConfirmedHash(j) == MaxPending + j

\* hash of a transaction that holds only the finalization of output h
FinalizationTx(h) == MaxPending + MaxConfirmed + h

\* CProofRoot of the queried currency in a notarization: proofRoots.count()
\* and its compactPower
ProofRoots ==
    {[has |-> FALSE, compactPower |-> 0]}
        \cup {[has |-> TRUE, compactPower |-> p] : p \in 0..MaxPower}

\* no proof root, one of no power, one of the greatest power
ExtremeRoots ==
    {[has |-> FALSE, compactPower |-> 0]}
        \cup {[has |-> TRUE, compactPower |-> p] : p \in {0, MaxPower}}

\* CPBaaSNotarization, the fields GetNotarizationData reads
Notarizations(prevs, roots) ==
    [prevNotarization : prevs, proofRoot : roots]

\* the two places a finalization may name its notarization output: on its own
\* transaction (output hash null) or on another one
IndexKeys(h) ==
    {[txhash |-> h, fhash |-> NullHash],
     [txhash |-> FinalizationTx(h), fhash |-> h]}

\* the index key of a finalization on the transaction of its notarization
SameTxKey(h) == [txhash |-> h, fhash |-> NullHash]

\* a notarization that is never read
NoNotarization ==
    [prevNotarization |-> NullHash,
     proofRoot |-> [has |-> FALSE, compactPower |-> 0]]

\* one entry of the confirmed finalization index, as the seed step reads it:
\*   script  "bad"          not a usable crypto-condition output
\*           "finalization" EVAL_FINALIZE_NOTARIZATION
\*           "notarization" EVAL_EARNEDNOTARIZATION / EVAL_ACCEPTEDNOTARIZATION
\*   txFound myGetTransaction finds the notarization transaction and output
\*   nValid  the notarization deserializes as valid
\* Fields that the seed step does not get to read have one value only; an
\* entry is of the oldest or of the newest block.
ConfirmedEntries(j, keys, roots) ==
    LET h0 == ConfirmedHash(j)
        Shape(s, k, t, v, nn) ==
            {[blockHeight |-> h, script |-> s, key |-> k, txFound |-> t,
              nValid |-> v, n |-> nn] : h \in {1, MaxBlockHeight}}
    IN  Shape("bad", SameTxKey(h0), FALSE, FALSE, NoNotarization)
        \cup Shape("finalization", SameTxKey(h0), FALSE, FALSE, NoNotarization)
        \cup Shape("finalization", SameTxKey(h0), TRUE, FALSE, NoNotarization)
        \cup Shape("notarization", SameTxKey(h0), TRUE, FALSE, NoNotarization)
        \cup UNION {Shape("finalization", k, TRUE, TRUE,
                          [prevNotarization |-> NullHash, proofRoot |-> r])
                      : k \in keys, r \in roots}
        \cup UNION {Shape("notarization", SameTxKey(h0), t, TRUE,
                          [prevNotarization |-> NullHash, proofRoot |-> r])
                      : t \in BOOLEAN, r \in roots}

\* one entry of the pending finalization index, as the growth step reads it:
\*   status "ok"           every condition of the resolution holds
\*          "invalid"      script, finalization or notarization does not parse
\*          "unresolvable" the notarization transaction or output is not found
\*          "unconfirmed"  the transaction is not in a block of the active chain
\* Entry k finalizes the notarization output PendingHash(k), which extends
\* any reference but itself.
PendingEntries(k, prevs, keys, failures, roots) ==
    {[status |-> s, key |-> SameTxKey(PendingHash(k)), n |-> NoNotarization]
        : s \in failures}
    \cup
    {[status |-> "ok", key |-> kk, n |-> nn]
        : kk \in keys, nn \in Notarizations(prevs \ {PendingHash(k)}, roots)}

\* a second unspent finalization of a notarization output that an earlier
\* entry of the index already finalizes
SecondFinalizations(earlier) ==
    {[status |-> "ok",
      key |-> [txhash |-> FinalizationTx(earlier[j].key.txhash),
               fhash |-> earlier[j].key.txhash],
      n |-> earlier[j].n]
        : j \in {i \in 1..Len(earlier) :
                    earlier[i].status = "ok" /\ earlier[i].key.fhash = NullHash}}

\* the pending indexes of at most max entries
RECURSIVE PendingLists(_, _, _, _, _)
PendingLists(max, prevs, seconds, failures, roots) ==
    IF max = 0 THEN {<<>>}
    ELSE LET shorter == PendingLists(max - 1, prevs, seconds, failures, roots)
             full == {s \in shorter : Len(s) = max - 1}
         IN  shorter
             \cup {Append(l, e) : l \in full,
                       e \in PendingEntries(max, prevs,
                                 {SameTxKey(PendingHash(max))}, failures, roots)}
             \cup IF seconds
                  THEN UNION {{Append(l, e) : e \in SecondFinalizations(l)}
                                 : l \in full}
                  ELSE {}

\* the confirmed indexes of at most max entries
RECURSIVE ConfirmedLists(_, _, _)
ConfirmedLists(max, keyed, roots) ==
    IF max = 0 THEN {<<>>}
    ELSE LET shorter == ConfirmedLists(max - 1, keyed, roots)
         IN  shorter \cup
             {Append(l, e) : l \in {s \in shorter : Len(s) = max - 1},
                             e \in ConfirmedEntries(max,
                                       IF keyed THEN IndexKeys(ConfirmedHash(max))
                                       ELSE {SameTxKey(ConfirmedHash(max))},
                                       roots)}

\* ------------------------------------------------- the chain power compare
\* CChainPower(): no work, no stake, height 0
DefaultChainPower == [power |-> 0, nHeight |-> 0]

\* CChainPower::ExpandCompactPower(compactPower, height)
ExpandCompactPower(compactPower, height) ==
    [power |-> compactPower, nHeight |-> height]

\* operator> of CChainPower: more accumulated power wins, and of two equal
\* powers the one of the lower fork index
PowerGreater(p1, p2) ==
    \/ p1.power > p2.power
    \/ p1.power = p2.power /\ p1.nHeight < p2.nHeight

\* ------------------------------------------------------- the query, pieces
Last(seq) == seq[Len(seq)]

\* CChainNotarizationData built from an empty vector of notarizations
EmptyNotarizationData ==
    [vtx |-> <<>>, forks |-> <<>>, lastConfirmed |-> -1, bestChain |-> -1]

\* the index of the latest confirmed finalization: the first entry of the
\* greatest block height
RECURSIVE BestItFrom(_, _, _)
BestItFrom(unspent, oneIt, bestIt) ==
    IF oneIt > Len(unspent) THEN bestIt
    ELSE BestItFrom(unspent, oneIt + 1,
                    IF unspent[oneIt].blockHeight > unspent[bestIt].blockHeight
                    THEN oneIt ELSE bestIt)

\* the last entry of the greatest block height
RECURSIVE BestItLastFrom(_, _, _)
BestItLastFrom(unspent, oneIt, bestIt) ==
    IF oneIt > Len(unspent) THEN bestIt
    ELSE BestItLastFrom(unspent, oneIt + 1,
                    IF unspent[oneIt].blockHeight >= unspent[bestIt].blockHeight
                    THEN oneIt ELSE bestIt)

BestItLast(unspent) == BestItLastFrom(unspent, 1, 1)

BestIt(unspent) == BestItFrom(unspent, 1, 1)

\* the output a finalization names: its own transaction when the hash of its
\* output reference is null
FinalizedOutput(key) ==
    IF key.fhash = NullHash THEN key.txhash ELSE key.fhash

\* the condition under which a pending finalization is kept
PendingResolves(entry) == entry.status = "ok"

\* an insert before the elements of the same key
MultimapInsertFirst(mm, key, value) ==
    LET pos == Cardinality({i \in 1..Len(mm) : mm[i].key < key})
    IN  SubSeq(mm, 1, pos) \o <<[key |-> key, value |-> value]>>
            \o SubSeq(mm, pos + 1, Len(mm))

\* std::multimap::insert: after the last element whose key is not greater
MultimapInsert(mm, key, value) ==
    LET pos == Cardinality({i \in 1..Len(mm) : mm[i].key <= key})
    IN  SubSeq(mm, 1, pos) \o <<[key |-> key, value |-> value]>>
            \o SubSeq(mm, pos + 1, Len(mm))

\* the whole map emptied where one key should go
MultimapClear(mm, key) == <<>>

\* an erase that removes nothing
MultimapKeep(mm, key) == mm

\* std::multimap::erase(key)
MultimapErase(mm, key) == SelectSeq(mm, LAMBDA e : e.key # key)

\* std::multimap::lower_bound(key): the first position whose key is not less,
\* Len(mm) + 1 standing for end()
LowerBound(mm, key) ==
    IF \E i \in 1..Len(mm) : mm[i].key >= key
    THEN CHOOSE i \in 1..Len(mm) :
             /\ mm[i].key >= key
             /\ \A j \in 1..(i - 1) : mm[j].key < key
    ELSE Len(mm) + 1

\* the elements from position it on, taken while their key equals key
RECURSIVE WhileKey(_, _, _)
WhileKey(mm, it, key) ==
    IF it > Len(mm) \/ mm[it].key # key THEN <<>>
    ELSE <<mm[it]>> \o WhileKey(mm, it + 1, key)

\* the elements the inner loop visits: from lower_bound(key) on, while the
\* key of the element equals key
MultimapEqualRange(mm, key) == WhileKey(mm, LowerBound(mm, key), key)

\* the scan of the pending finalizations from entry it on: every entry that
\* resolves is inserted under the reference of the notarization it extends
RECURSIVE CollectReferences(_, _, _)
CollectReferences(pending, it, refs) ==
    IF it > Len(pending) THEN refs
    ELSE CollectReferences(pending, it + 1,
            IF PendingResolves(pending[it])
            THEN MultimapInsert(refs, pending[it].n.prevNotarization,
                     [first |-> FinalizedOutput(pending[it].key),
                      second |-> pending[it].n])
            ELSE refs)

\* a further match on the same tip: the fork that the first match extended is
\* copied and the last index of the copy is replaced
CloneForkAppending(extended, idx) == Append(extended, idx)

CloneFork(extended, idx) == [extended EXCEPT ![Len(extended)] = idx]

\* the matches of fork forkNum, from match m on, applied to the fork index
RECURSIVE AddMatches(_, _, _, _)
AddMatches(nd, forkNum, matches, m) ==
    IF m > Len(matches) THEN nd
    ELSE LET vtx2 == Append(nd.vtx, matches[m].value)
             idx == Len(vtx2) - 1
             forks2 ==
                 IF m > 1
                 THEN Append(nd.forks, CloneFork(nd.forks[forkNum + 1], idx))
                 ELSE [nd.forks EXCEPT ![forkNum + 1] = Append(@, idx)]
         IN  AddMatches([nd EXCEPT !.vtx = vtx2, !.forks = forks2],
                        forkNum, matches, m + 1)

\* one pass of the inner loop over the forks forkNum .. numForks - 1
RECURSIVE ExpandForks(_, _, _, _, _)
ExpandForks(nd, refs, added, forkNum, numForks) ==
    IF forkNum >= numForks
    THEN [nd |-> nd, refs |-> refs, somethingAdded |-> added]
    ELSE LET searchRef == nd.vtx[Last(nd.forks[forkNum + 1]) + 1].first
             matches == MultimapEqualRange(refs, searchRef)
         IN  ExpandForks(AddMatches(nd, forkNum, matches, 1),
                         MultimapErase(refs, searchRef),
                         added \/ Len(matches) > 0,
                         forkNum + 1, numForks)

\* an iteration that visits the first fork only
ExpandOnceFirstFork(nd, refs) == ExpandForks(nd, refs, FALSE, 0, 1)

\* one iteration of the while loop
ExpandOnce(nd, refs) == ExpandForks(nd, refs, FALSE, 0, Len(nd.forks))

\* the test that makes a fork the new best one
IsNewBest(curPower, best) == PowerGreater(curPower, best)

\* the loop that selects the best chain, from fork i on
RECURSIVE SelectFrom(_, _, _, _)
SelectFrom(nd, i, best, bestChain) ==
    IF i >= Len(nd.forks) THEN bestChain
    ELSE LET tip == nd.vtx[Last(nd.forks[i + 1]) + 1].second
             curPower == ExpandCompactPower(tip.proofRoot.compactPower, i)
         IN  IF tip.proofRoot.has /\ IsNewBest(curPower, best)
             THEN SelectFrom(nd, i + 1, curPower, i)
             ELSE SelectFrom(nd, i + 1, best, bestChain)

SelectBestChain(nd) == SelectFrom(nd, 0, DefaultChainPower, 0)

\* the value of the final return statement
ReturnValueNeedsPending(nd) == Len(nd.vtx) > 1

ReturnValueNeedsProofRoot(nd) ==
    /\ Len(nd.vtx) # 0
    /\ nd.vtx[Last(nd.forks[nd.bestChain + 1]) + 1].second.proofRoot.has

ReturnValue(nd) == Len(nd.vtx) # 0

\* CProofRoot::GetProofRoot(height) of the local chain: present, its power
\* grows with the height
LocalProofRoot(height) == [has |-> TRUE, compactPower |-> height]

\* the notarization made for the local currency at the current height
LocalNotarization(height) ==
    [first |-> NullHash,
     second |-> [prevNotarization |-> NullHash,
                 proofRoot |-> LocalProofRoot(height)]]

\* the fork index of one confirmed notarization: a single fork of length 1
\* a seed that leaves lastConfirmed as it was
SeedNotarizationDataUnconfirmed(nd, txInfo, n) ==
    [vtx |-> Append(nd.vtx, [first |-> txInfo, second |-> n]),
     forks |-> <<(<<0>>)>>, lastConfirmed |-> nd.lastConfirmed, bestChain |-> 0]

SeedNotarizationData(nd, txInfo, n) ==
    [vtx |-> Append(nd.vtx, [first |-> txInfo, second |-> n]),
     forks |-> <<(<<0>>)>>, lastConfirmed |-> 0, bestChain |-> 0]

\* the seed step on the confirmed finalizations read from the index:
\* outcome "false" / "true" is a return, "pending" goes on to the pending scan
SeedStep(nd, unspent, isToken, wantTx) ==
    IF Len(unspent) = 0
    THEN [nd |-> nd, outcome |-> "false", tx |-> <<>>]
    ELSE
    LET best == unspent[BestIt(unspent)] IN
    IF best.script = "bad"
    THEN [nd |-> nd, outcome |-> "false", tx |-> <<>>]
    ELSE IF best.script = "finalization"
    THEN LET txInfo == FinalizedOutput(best.key) IN
         IF best.txFound
         THEN IF ~best.nValid
              THEN [nd |-> nd, outcome |-> "false", tx |-> <<>>]
              ELSE [nd |-> SeedNotarizationData(nd, txInfo, best.n),
                    outcome |-> "pending",
                    tx |-> IF wantTx THEN <<txInfo>> ELSE <<>>]
         ELSE [nd |-> nd, outcome |-> "false", tx |-> <<>>]
    ELSE LET txInfo == best.key.txhash IN
         IF ~best.nValid
         THEN [nd |-> nd, outcome |-> "false", tx |-> <<>>]
         ELSE IF wantTx /\ ~best.txFound
         THEN [nd |-> SeedNotarizationData(nd, txInfo, best.n),
               outcome |-> "false", tx |-> <<>>]
         ELSE [nd |-> SeedNotarizationData(nd, txInfo, best.n),
               outcome |-> IF isToken THEN "true" ELSE "pending",
               tx |-> IF wantTx THEN <<txInfo>> ELSE <<>>]

\* ------------------------------------------------------------------ state
VARIABLES
    chainDef,               \* GetCachedCurrency: "invalid", "token", "chain"
    currencyIsLocal,        \* currencyID == ASSETCHAINS_CHAINID
    verusActive,            \* IsVerusActive()
    chainHeight,            \* chainActive.Height()
    wantTxOut,              \* the caller passes optionalTxOut
    confirmedIndex,         \* unspent confirmed finalizations of the currency
    pendingIndex,           \* unspent pending finalizations of the currency
    pc,                     \* position of the running call
    notarizationData,       \* the caller's CChainNotarizationData
    unspentFinalizations,   \* local: what was read of the confirmed index
    pendingFinalizations,   \* local: what was read of the pending index
    notarizationReferences, \* local: the multimap of pending notarizations
    somethingAdded,         \* local: the flag of the expansion loop
    txOut,                  \* the caller's optionalTxOut vector (hashes)
    retval,                 \* the value returned by the last finished call
    results                 \* what the finished calls returned, in order

\* the call of CalculateFractionalPrice
VARIABLES
    priceNumerator,         \* argument smallNumerator
    priceDenominator,       \* argument smallDenominator
    priceRoundup,           \* argument roundup
    priceAnswer,            \* the CAmount returned
    pricePc                 \* "call", "done", or "threw" (uint_error)

priceVars == <<priceNumerator, priceDenominator, priceRoundup, priceAnswer,
               pricePc>>

\* the reserve transfer index and the scans of it
VARIABLES
    transferHistory,        \* the address index of reserve transfers, in order
    indexAvailable,         \* GetAddressIndex / GetAddressUnspent succeed
    transferResults         \* what the finished scans returned, in order

transferVars == <<transferHistory, indexAvailable, transferResults>>

\* the call of submitimports
VARIABLES
    importParams,           \* params[0], as submitimports reads it
    importPc,               \* "call", "done", or "threw" (JSONRPCError)
    importResult            \* the imports returned

importVars == <<importParams, importPc, importResult>>

\* the call of GetInitialCurrencyState
VARIABLES
    stateChainDef,          \* argument chainDef
    statePc,                \* "call" or "done"
    stateResult             \* the CCoinbaseCurrencyState returned

stateVars == <<stateChainDef, statePc, stateResult>>

\* the call of getbestproofroot
VARIABLES
    rootParams,             \* params[0]: proofroots and lastconfirmed
    rootPc,                 \* "call", "done", or "threw" (JSONRPCError)
    rootResult              \* retVal, the object returned

rootVars == <<rootParams, rootPc, rootResult>>

\* the node selection of getcurrency
VARIABLES
    cndNodes,               \* the nodes of cnd and of the definition
    nodePc,                 \* "call", "done", or "trapped" (division by zero)
    vNNodes,                \* the addresses of the nodes returned
    removedFromEmpty        \* a removal was made from the empty vNNodes

nodeVars == <<cndNodes, nodePc, vNNodes, removedFromEmpty>>

\* the RPC threads and the critical sections
VARIABLES
    running,                \* the handler each thread runs, or "none"
    position,               \* the next operation of each thread
    criticalSections        \* owner and depth of each CCriticalSection

lockVars == <<running, position, criticalSections>>

\* the read of the fork index in estimateconversion
VARIABLES
    indexRead,              \* "none", "in range" or "out of range"
    estimatePc              \* "idle", "estimated", "threw" or "trapped"

estimateVars == <<indexRead, estimatePc>>

\* the call of CWalletDB::WriteTxn
VARIABLES
    walletPc,               \* "begin", "write", "commit", "check", "returned"
    txnWrite,               \* the local txnWrite
    retries,                \* the local retries
    attemptLog,             \* what TxnBegin, Write, TxnCommit gave, per round
    stored,                 \* the last commit of the write succeeded
    writeResult             \* the value returned

walletVars == <<walletPc, txnWrite, retries, attemptLog, stored, writeResult>>

\* the state of the calls of the handlers modelled last
laterCalls == <<rootVars, nodeVars, lockVars, estimateVars, walletVars>>

\* the state of the calls of the other functions
otherCalls == <<priceVars, transferVars, importVars, stateVars, laterCalls>>

ledger == <<chainDef, currencyIsLocal, verusActive, chainHeight, wantTxOut,
            confirmedIndex, pendingIndex>>

locals == <<unspentFinalizations, pendingFinalizations,
            notarizationReferences, somethingAdded>>

queryVars == <<ledger, pc, notarizationData, locals, txOut, retval, results>>

vars == <<queryVars, otherCalls>>

\* no call of CalculateFractionalPrice is under way
PriceIdle ==
    /\ priceNumerator = <<>>
    /\ priceDenominator = <<>>
    /\ priceRoundup = FALSE
    /\ priceAnswer = <<>>
    /\ pricePc = "idle"

\* no scan of the reserve transfer index is under way
TransfersIdle ==
    /\ transferHistory = <<>>
    /\ indexAvailable = TRUE
    /\ transferResults = <<>>

\* submitimports is not called
ImportsIdle ==
    /\ importParams = <<>>
    /\ importPc = "idle"
    /\ importResult = <<>>

\* GetInitialCurrencyState is not called
StateIdle ==
    /\ stateChainDef = <<>>
    /\ statePc = "idle"
    /\ stateResult = <<>>

\* getbestproofroot is not called
RootsIdle ==
    /\ rootParams = <<>>
    /\ rootPc = "idle"
    /\ rootResult = <<>>

\* the node selection of getcurrency is not under way
NodesIdle ==
    /\ cndNodes = <<>>
    /\ nodePc = "idle"
    /\ vNNodes = {}
    /\ removedFromEmpty = FALSE

\* no thread runs a handler
ThreadsIdle ==
    /\ running = <<>>
    /\ position = <<>>
    /\ criticalSections = <<>>

\* estimateconversion has not read the fork index
EstimateIdle ==
    /\ indexRead = "none"
    /\ estimatePc = "idle"

\* WriteTxn is not called
WalletIdle ==
    /\ walletPc = "idle"
    /\ txnWrite = FALSE
    /\ retries = 0
    /\ attemptLog = <<>>
    /\ stored = FALSE
    /\ writeResult = FALSE

\* none of the handlers modelled last is called
LaterIdle ==
    /\ RootsIdle
    /\ NodesIdle
    /\ ThreadsIdle
    /\ EstimateIdle
    /\ WalletIdle

\* the ways in which a pending finalization does not resolve
Failures == {"invalid", "unresolvable", "unconfirmed"}

\* a proof root of the greatest power of the model
StrongRoot == [has |-> TRUE, compactPower |-> MaxPower]

\* the references a pending notarization of a rich pending index may extend
ForkPrevs == {ConfirmedHash(1)} \cup {PendingHash(k) : k \in 1..MaxPending}

QueryStart ==
    /\ pc = "call"
    /\ notarizationData = EmptyNotarizationData
    /\ unspentFinalizations = <<>>
    /\ pendingFinalizations = <<>>
    /\ notarizationReferences = <<>>
    /\ somethingAdded = FALSE
    /\ txOut = <<>>
    /\ retval = FALSE
    /\ results = <<>>

\* every environment of the query, over an index of at most one confirmed
\* entry, which resolves, and one pending finalization
InitEnvCases ==
    /\ chainDef \in {"invalid", "token", "chain"}
    /\ currencyIsLocal \in BOOLEAN
    /\ verusActive \in BOOLEAN
    /\ chainHeight \in 0..MaxBlockHeight
    /\ wantTxOut \in BOOLEAN
    /\ confirmedIndex \in
         {<<>>} \cup
         {<<e>> : e \in {c \in ConfirmedEntries(1, IndexKeys(ConfirmedHash(1)),
                                                ProofRoots)
                            : c.blockHeight = 1 /\ c.txFound /\ c.nValid}}
    /\ pendingIndex \in
         {<<>>} \cup
         {<<e>> : e \in PendingEntries(1, {ConfirmedHash(1)},
                                       IndexKeys(PendingHash(1)), Failures,
                                       ProofRoots)}

\* every confirmed index, for a currency that is not the local one
InitSeedCases ==
    /\ chainDef \in {"token", "chain"}
    /\ currencyIsLocal = FALSE
    /\ verusActive = TRUE
    /\ chainHeight = MaxBlockHeight
    /\ wantTxOut \in BOOLEAN
    /\ confirmedIndex \in ConfirmedLists(MaxConfirmed, FALSE, {StrongRoot})
    /\ pendingIndex = <<>>

\* the confirmed index of one notarization output that resolves
OneConfirmed ==
    <<[blockHeight |-> 1, script |-> "notarization",
       key |-> SameTxKey(ConfirmedHash(1)), txFound |-> TRUE, nValid |-> TRUE,
       n |-> [prevNotarization |-> NullHash, proofRoot |-> StrongRoot]]>>

\* every pending index of distinct notarization outputs
InitForkCases ==
    /\ chainDef = "chain"
    /\ currencyIsLocal = FALSE
    /\ verusActive = TRUE
    /\ chainHeight = MaxBlockHeight
    /\ wantTxOut = FALSE
    /\ confirmedIndex = OneConfirmed
    /\ pendingIndex \in
         PendingLists(MaxPending, ForkPrevs, FALSE, {"unconfirmed"},
                      ExtremeRoots)

\* the pending indexes that finalize a notarization output more than once
InitSecondFinalizationCases ==
    /\ chainDef = "chain"
    /\ currencyIsLocal = FALSE
    /\ verusActive = TRUE
    /\ chainHeight = MaxBlockHeight
    /\ wantTxOut = TRUE
    /\ confirmedIndex = OneConfirmed
    /\ pendingIndex \in
         PendingLists(MaxPending, ForkPrevs, TRUE, {}, {StrongRoot})

Init ==
    /\ QueryStart
    /\ PriceIdle
    /\ TransfersIdle
    /\ ImportsIdle
    /\ StateIdle
    /\ LaterIdle
    /\ \/ InitEnvCases
       \/ InitSeedCases
       \/ InitForkCases
       \/ InitSecondFinalizationCases

\* GetNotarizationData is not called
QueryIdle ==
    /\ QueryStart
    /\ chainDef = "invalid"
    /\ currencyIsLocal = FALSE
    /\ verusActive = TRUE
    /\ chainHeight = 0
    /\ wantTxOut = FALSE
    /\ confirmedIndex = <<>>
    /\ pendingIndex = <<>>

\* ---------------------------------------------------------------- actions
Finish(nd, ret, tx) ==
    /\ pc' = "done"
    /\ notarizationData' = nd
    /\ retval' = ret
    /\ txOut' = tx
    /\ results' = Append(results, [data |-> nd, ret |-> ret, tx |-> tx])

\* entry of GetNotarizationData: the result is reset, the currency looked up
BeginKeepingData(nd) == nd

BeginData(nd) == EmptyNotarizationData

Begin ==
    /\ pc = "call"
    /\ unspentFinalizations' = <<>>
    /\ pendingFinalizations' = <<>>
    /\ notarizationReferences' = <<>>
    /\ somethingAdded' = FALSE
    /\ IF chainDef = "invalid"
       THEN Finish(BeginData(notarizationData), FALSE, txOut)
       ELSE /\ pc' = "notarize"
            /\ notarizationData' = BeginData(notarizationData)
            /\ UNCHANGED <<txOut, retval, results>>
    /\ UNCHANGED <<otherCalls, ledger>>

\* the condition under which a notarization of the local chain is made
MakesLocalNotarizationOnVerus == verusActive /\ currencyIsLocal

MakesLocalNotarization ==
    (verusActive \/ chainHeight = 0) /\ currencyIsLocal

SynthesizeLocal ==
    /\ pc = "notarize"
    /\ MakesLocalNotarization
    /\ Finish([vtx |-> Append(notarizationData.vtx,
                              LocalNotarization(chainHeight)),
               forks |-> Append(notarizationData.forks, <<0>>),
               lastConfirmed |-> 0, bestChain |-> 0], TRUE, txOut)
    /\ UNCHANGED <<otherCalls, ledger, locals>>

SeedConfirmed ==
    /\ pc = "notarize"
    /\ ~MakesLocalNotarization
    /\ unspentFinalizations' = confirmedIndex
    /\ LET seed == SeedStep(notarizationData, confirmedIndex,
                            chainDef = "token", wantTxOut)
       IN  IF seed.outcome = "pending"
           THEN /\ pc' = "pending"
                /\ notarizationData' = seed.nd
                /\ txOut' = txOut \o seed.tx
                /\ UNCHANGED <<retval, results>>
           ELSE Finish(seed.nd, seed.outcome = "true", txOut \o seed.tx)
    /\ UNCHANGED <<otherCalls, ledger, pendingFinalizations, notarizationReferences,
                   somethingAdded>>

CollectPending ==
    /\ pc = "pending"
    /\ pendingFinalizations' = pendingIndex
    /\ IF Len(pendingIndex) = 0
       THEN /\ pc' = "return"
            /\ UNCHANGED <<notarizationReferences, somethingAdded>>
       ELSE /\ pc' = "expand"
            /\ notarizationReferences' = CollectReferences(pendingIndex, 1, <<>>)
            /\ somethingAdded' = TRUE
    /\ UNCHANGED <<otherCalls, ledger, notarizationData, unspentFinalizations, txOut,
                   retval, results>>

ExpandIteration ==
    /\ pc = "expand"
    /\ somethingAdded /\ Len(notarizationReferences) > 0
    /\ LET e == ExpandOnce(notarizationData, notarizationReferences)
           old == Len(notarizationData.vtx)
       IN  /\ notarizationData' = e.nd
           /\ notarizationReferences' = e.refs
           /\ somethingAdded' = e.somethingAdded
           /\ txOut' = IF wantTxOut
                       THEN txOut \o [i \in 1..(Len(e.nd.vtx) - old)
                                        |-> e.nd.vtx[old + i].first]
                       ELSE txOut
    /\ UNCHANGED <<otherCalls, ledger, pc, unspentFinalizations, pendingFinalizations,
                   retval, results>>

SelectBest ==
    /\ pc = "expand"
    /\ ~(somethingAdded /\ Len(notarizationReferences) > 0)
    /\ pc' = "return"
    /\ notarizationData' =
         [notarizationData EXCEPT !.bestChain = SelectBestChain(notarizationData)]
    /\ UNCHANGED <<otherCalls, ledger, locals, txOut, retval, results>>

Return ==
    /\ pc = "return"
    /\ Finish(notarizationData, ReturnValue(notarizationData), txOut)
    /\ UNCHANGED <<otherCalls, ledger, locals>>

\* the caller queries the same currency a second time, with a fresh
\* optionalTxOut
CallAgain ==
    /\ pc = "done"
    /\ Len(results) = 1
    /\ pc' = "call"
    /\ txOut' = <<>>
    /\ UNCHANGED <<otherCalls, ledger, notarizationData, locals, retval, results>>

\* one call of GetNotarizationData
Next ==
    \/ Begin
    \/ SynthesizeLocal
    \/ SeedConfirmed
    \/ CollectPending
    \/ ExpandIteration
    \/ SelectBest
    \/ Return

Spec == Init /\ [][Next]_vars

\* two calls on the same ledger
NextTwice ==
    \/ Next
    \/ CallAgain

SpecTwice == Init /\ [][NextTwice]_vars

\* the whole query as a function of the ledger, for a given order of the
\* pending index
RECURSIVE ExpandAll(_, _, _)
ExpandAll(nd, refs, added) ==
    IF added /\ Len(refs) > 0
    THEN LET e == ExpandOnce(nd, refs)
         IN  ExpandAll(e.nd, e.refs, e.somethingAdded)
    ELSE nd

QueryOver(pending) ==
    LET seed == SeedStep(EmptyNotarizationData, confirmedIndex,
                         chainDef = "token", wantTxOut)
    IN  IF seed.outcome # "pending" \/ Len(pending) = 0 THEN seed.nd
        ELSE LET nd == ExpandAll(seed.nd,
                                 CollectReferences(pending, 1, <<>>), TRUE)
             IN  [nd EXCEPT !.bestChain = SelectBestChain(nd)]

\* ------------------------------------------------- what the claims speak of
Done == pc = "done"

FirstDone == Done /\ Len(results) = 1

\* the record at the tip of fork number i (0-based) of a fork index
TipOf(nd, i) == nd.vtx[Last(nd.forks[i + 1]) + 1]

ForkNumbers(nd) == 0..(Len(nd.forks) - 1)

\* the forks whose tip carries a proof root of the queried currency
Proven(nd) == {i \in ForkNumbers(nd) : TipOf(nd, i).second.proofRoot.has}

TipPower(nd, i) == TipOf(nd, i).second.proofRoot.compactPower

\* the proven forks of the greatest tip power
Strongest(nd) ==
    {i \in Proven(nd) : \A j \in Proven(nd) : TipPower(nd, j) <= TipPower(nd, i)}

Least(S) == CHOOSE m \in S : \A x \in S : m <= x

\* a fork as the sequence of the output references of its records
RefPath(nd, fork) == [i \in 1..Len(fork) |-> nd.vtx[fork[i] + 1].first]

RefPaths(nd) == {RefPath(nd, nd.forks[i]) : i \in 1..Len(nd.forks)}

\* the most recent confirmed finalization of the index: of the greatest block
\* height, and of these the one the index lists first
LatestConfirmed ==
    CHOOSE i \in 1..Len(confirmedIndex) :
        /\ \A j \in 1..Len(confirmedIndex) :
               confirmedIndex[j].blockHeight <= confirmedIndex[i].blockHeight
        /\ \A j \in 1..(i - 1) :
               confirmedIndex[j].blockHeight < confirmedIndex[i].blockHeight

\* the confirmed entry resolves to a valid notarization the call can use
Resolvable(e) ==
    /\ e.script # "bad"
    /\ e.nValid
    /\ e.script = "finalization" => e.txFound
    /\ e.script = "notarization" /\ wantTxOut => e.txFound

\* the seed step fails: no confirmed finalization, or the latest one does not
\* resolve
SeedFails ==
    \/ Len(confirmedIndex) = 0
    \/ ~Resolvable(confirmedIndex[LatestConfirmed])

\* the output reference of the confirmed notarization
SeedRef ==
    LET e == confirmedIndex[LatestConfirmed]
    IN  IF e.script = "finalization" /\ e.key.fhash # NullHash
        THEN e.key.fhash ELSE e.key.txhash

\* the call is answered from the index: the currency is defined, no local
\* notarization is made, and the seed step succeeds
Seeded == chainDef # "invalid" /\ ~MakesLocalNotarization /\ ~SeedFails

\* a token whose confirmed entry is itself a notarization output: the call
\* returns without reading the pending finalizations
TokenShortcut ==
    /\ chainDef = "token"
    /\ confirmedIndex[LatestConfirmed].script = "notarization"

\* the pending finalizations that resolve, by position in the index
ValidPending == {k \in 1..Len(pendingIndex) : pendingIndex[k].status = "ok"}

PendingRef(k) ==
    IF pendingIndex[k].key.fhash = NullHash
    THEN pendingIndex[k].key.txhash ELSE pendingIndex[k].key.fhash

PendingPrev(k) == pendingIndex[k].n.prevNotarization

\* the valid pending notarization k hangs on the seed by at most d links
RECURSIVE Hangs(_, _)
Hangs(k, d) ==
    \/ PendingPrev(k) = SeedRef
    \/ /\ d > 1
       /\ \E p \in ValidPending : PendingRef(p) = PendingPrev(k) /\ Hangs(p, d - 1)

Connected == {k \in ValidPending : Hangs(k, Len(pendingIndex))}

\* the valid pending notarizations form a tree rooted at the seed
PendingIsTree ==
    /\ \A k \in ValidPending : k \in Connected
    /\ \A k, l \in ValidPending : PendingRef(k) = PendingRef(l) => k = l

\* the path of references from the seed to the connected notarization k
RECURSIVE PathTo(_)
PathTo(k) ==
    IF PendingPrev(k) = SeedRef THEN <<SeedRef, PendingRef(k)>>
    ELSE Append(PathTo(CHOOSE p \in Connected : PendingRef(p) = PendingPrev(k)),
                PendingRef(k))

Leaves ==
    {k \in Connected : \A c \in ValidPending : PendingPrev(c) # PendingRef(k)}

LeafPaths ==
    IF Connected = {} THEN {<<SeedRef>>} ELSE {PathTo(k) : k \in Leaves}

\* the orders in which the index may list its pending finalizations
Orders ==
    LET n == Len(pendingIndex)
    IN  {[i \in 1..n |-> pendingIndex[f[i]]] :
            f \in {g \in [1..n -> 1..n] : \A a, b \in 1..n : g[a] = g[b] => a = b}}

\* ------------------------------------------------------------- the claims
nd == notarizationData

\* C1: after a successful call for a currency that is not the local one, if
\* some fork tip carries a proof root of the currency then bestChain is a fork
\* whose tip carries one and whose tip power is greatest among such forks.
C1_BestChainIsStrongestProven ==
    (Done /\ retval /\ ~currencyIsLocal /\ Proven(nd) # {})
        => nd.bestChain \in Strongest(nd)

C3_ForksAreLeafPaths ==
    (Done /\ Seeded /\ PendingIsTree)
        => /\ retval
           /\ RefPaths(nd) = LeafPaths
           /\ Len(nd.forks) = Cardinality(LeafPaths)

\* C3 amended: the same, unless the currency is a token whose confirmed index
\* entry is itself a notarization output; the call then returns the single
\* seed fork without reading the pending finalizations.
C3_ForksAreLeafPathsWhenPendingRead ==
    (Done /\ Seeded /\ PendingIsTree)
        => /\ retval
           /\ IF TokenShortcut
              THEN nd.forks = <<(<<0>>)>> /\ Len(nd.vtx) = 1
              ELSE /\ RefPaths(nd) = LeafPaths
                   /\ Len(nd.forks) = Cardinality(LeafPaths)

\* the scenario P1 -> R, P2 -> R, P3 -> P1
C3_Witness ==
    /\ Done /\ Seeded /\ PendingIsTree /\ ~TokenShortcut
    /\ nd.forks = <<(<<0, 1, 3>>), (<<0, 2>>)>>
    /\ RefPaths(nd) = {<<SeedRef, PendingHash(1), PendingHash(3)>>,
                       <<SeedRef, PendingHash(2)>>}

\* C4: every fork path is strictly increasing in the indices into vtx, and
\* every record after the first extends the record before it in its path.
C4_PathsIncreaseAndLink ==
    \A f \in 1..Len(nd.forks) :
        LET fork == nd.forks[f]
        IN  /\ Len(fork) >= 1
            /\ \A i \in 1..Len(fork) : fork[i] \in 0..(Len(nd.vtx) - 1)
            /\ \A i \in 2..Len(fork) :
                   /\ fork[i - 1] < fork[i]
                   /\ nd.vtx[fork[i] + 1].second.prevNotarization
                          = nd.vtx[fork[i - 1] + 1].first

C4_Witness ==
    /\ Done /\ retval
    /\ \E f \in 1..Len(nd.forks) : Len(nd.forks[f]) >= 3
    /\ Len(nd.forks) >= 2

\* C5: the call returns false exactly when the currency is not defined or
\* the seed step fails; otherwise it returns true with at least the seed
\* fork, whatever pending finalizations do not resolve.
C5_FailsOnlyOnSeed ==
    Done =>
        /\ ~retval <=> (chainDef = "invalid"
                           \/ (~MakesLocalNotarization /\ SeedFails))
        /\ retval => /\ Len(nd.vtx) >= 1
                     /\ Len(nd.forks) >= 1
                     /\ nd.forks[1][1] = 0

C5_Witness ==
    /\ Done /\ retval /\ Seeded
    /\ Len(pendingFinalizations) = MaxPending
    /\ ValidPending = {}
    /\ nd.forks = <<(<<0>>)>>

\* C6: when two or more forks with a proof root share the greatest power,
\* bestChain is the one of the lowest fork index.
C6_TieGoesToLowestFork ==
    (Done /\ retval /\ Cardinality(Strongest(nd)) >= 2)
        => nd.bestChain = Least(Strongest(nd))

\* C7, taken for forks whose tips all carry a proof root of a power above
\* zero: whatever the order in which the index lists the pending
\* finalizations, the same fork is selected as best chain.
C7_SameBestForkInEveryOrder ==
    (FirstDone /\ retval /\ Seeded /\ Proven(nd) = ForkNumbers(nd)
               /\ \A i \in ForkNumbers(nd) : TipPower(nd, i) > 0)
        => \A order \in Orders :
               LET other == QueryOver(order)
               IN  RefPath(other, other.forks[other.bestChain + 1])
                       = RefPath(nd, nd.forks[nd.bestChain + 1])

\* C8: calls for the same currency on an unchanged ledger return identical
\* fork indexes and values.
C8_CallsAgree ==
    \A i, j \in 1..Len(results) :
        /\ results[i].data = results[j].data
        /\ results[i].ret = results[j].ret

C8_Witness ==
    /\ Len(results) >= 2
    /\ results[2].ret
    /\ Len(results[2].data.forks) >= 2

C10_SingleConfirmed ==
    (Done /\ ~currencyIsLocal /\ chainDef # "invalid"
          /\ Len(confirmedIndex) = 1 /\ ~SeedFails /\ pendingIndex = <<>>)
        => /\ retval
           /\ Len(nd.vtx) = 1
           /\ nd.forks = <<(<<0>>)>>
           /\ nd.bestChain = 0
           /\ nd.lastConfirmed = 0

C10_Witness ==
    /\ Done /\ ~currencyIsLocal /\ chainDef = "chain"
    /\ Len(confirmedIndex) = 1 /\ ~SeedFails /\ pendingIndex = <<>>
    /\ retval /\ nd.vtx[1].first = SeedRef

\* ==================================================== the fractional price
\* ------------------------------------------------------------------ bounds
MaxSmallAmount == 6      \* the small amounts run from 0 to this

\* --------------------------------------------- arith_uint256 and CAmount
\* SATOSHIDEN, the fixed point scale of an amount
SATOSHIDEN == 100000000

\* the base of a limb
LimbBase == 256

\* limbs of a 64-bit and of a 256-bit number
Limbs64 == 8
Limbs256 == 32

BigZero == <<>>

\* a number without its leading zero limbs
RECURSIVE BigTrim(_)
BigTrim(x) ==
    IF x # <<>> /\ x[Len(x)] = 0
    THEN BigTrim(SubSeq(x, 1, Len(x) - 1))
    ELSE x

\* arith_uint256(uint64_t) of a number the model checker can hold
RECURSIVE BigFromInt(_)
BigFromInt(v) ==
    IF v = 0 THEN <<>> ELSE <<v % LimbBase>> \o BigFromInt(v \div LimbBase)

\* 2^k
BigPow2(k) ==
    [i \in 1..(k \div 8 + 1) |-> IF i = k \div 8 + 1 THEN 2 ^ (k % 8) ELSE 0]

Limb(x, i) == IF i <= Len(x) THEN x[i] ELSE 0

\* the low limbs of a number: the value modulo LimbBase^limbs
BigLow(x, limbs) ==
    BigTrim(SubSeq(x, 1, IF Len(x) < limbs THEN Len(x) ELSE limbs))

RECURSIVE BigAddFrom(_, _, _, _)
BigAddFrom(a, b, i, carry) ==
    IF i > Len(a) /\ i > Len(b)
    THEN IF carry = 0 THEN <<>> ELSE <<carry>>
    ELSE LET s == Limb(a, i) + Limb(b, i) + carry
         IN  <<s % LimbBase>> \o BigAddFrom(a, b, i + 1, s \div LimbBase)

\* operator+ of base_uint<256>
BigAdd(a, b) == BigLow(BigAddFrom(a, b, 1, 0), Limbs256)

RECURSIVE BigSubFrom(_, _, _, _, _)
BigSubFrom(a, b, i, borrow, limbs) ==
    IF i > limbs
    THEN <<>>
    ELSE LET s == Limb(a, i) - Limb(b, i) - borrow
         IN  IF s < 0
             THEN <<s + LimbBase>> \o BigSubFrom(a, b, i + 1, 1, limbs)
             ELSE <<s>> \o BigSubFrom(a, b, i + 1, 0, limbs)

RECURSIVE BigLessFrom(_, _, _)
BigLessFrom(a, b, i) ==
    IF i = 0 THEN FALSE
    ELSE IF a[i] # b[i] THEN a[i] < b[i]
    ELSE BigLessFrom(a, b, i - 1)

\* operator< of base_uint<256>
BigLess(a, b) ==
    IF Len(a) # Len(b) THEN Len(a) < Len(b) ELSE BigLessFrom(a, b, Len(a))

BigLessEq(a, b) == ~BigLess(b, a)

RECURSIVE BigMulLimb(_, _, _, _)
BigMulLimb(a, m, i, carry) ==
    IF i > Len(a)
    THEN IF carry = 0 THEN <<>> ELSE <<carry>>
    ELSE LET s == a[i] * m + carry
         IN  <<s % LimbBase>> \o BigMulLimb(a, m, i + 1, s \div LimbBase)

RECURSIVE BigMulFrom(_, _, _)
BigMulFrom(a, b, j) ==
    IF j > Len(b)
    THEN <<>>
    ELSE BigAddFrom(BigMulLimb(a, b[j], 1, 0),
                    <<0>> \o BigMulFrom(a, b, j + 1), 1, 0)

\* operator* of base_uint<256>: the product modulo 2^256
BigMul(a, b) == BigLow(BigMulFrom(a, b, 1), Limbs256)

\* operator- of base_uint<256>: the difference modulo 2^256
BigSub(a, b) ==
    BigTrim(BigSubFrom(a, b, 1, 0, IF BigLess(a, b) THEN Limbs256 ELSE Len(a)))

\* quotient and remainder of a by b > 0 for a quotient below LimbBase, by
\* doubling the divisor
RECURSIVE BigDivModLimb(_, _)
BigDivModLimbStep(h, b) ==
    IF BigLess(h.rem, b)
    THEN [quot |-> 2 * h.quot, rem |-> h.rem]
    ELSE [quot |-> 2 * h.quot + 1, rem |-> BigSub(h.rem, b)]

BigDivModLimb(a, b) ==
    IF BigLess(a, b)
    THEN [quot |-> 0, rem |-> a]
    ELSE BigDivModLimbStep(BigDivModLimb(a, BigAddFrom(b, b, 1, 0)), b)

\* quotient and remainder of the limbs i and above of a by b > 0, by long
\* division from the most significant limb
RECURSIVE BigDivModFrom(_, _, _)
BigDivModNext(h, limb, b) ==
    IF h.rem = <<>> /\ limb = 0
    THEN [quot |-> BigTrim(<<0>> \o h.quot), rem |-> <<>>]
    ELSE LET d == BigDivModLimb(<<limb>> \o h.rem, b)
         IN  [quot |-> BigTrim(<<d.quot>> \o h.quot), rem |-> d.rem]

BigDivModFrom(a, b, i) ==
    IF i > Len(a)
    THEN [quot |-> <<>>, rem |-> <<>>]
    ELSE BigDivModNext(BigDivModFrom(a, b, i + 1), a[i], b)

BigDivMod(a, b) == BigDivModFrom(a, b, 1)

\* operator/ of base_uint<256>, for a divisor that is not zero
BigDivide(a, b) == BigDivMod(a, b).quot

\* arith_uint256::GetLow64
GetLow64(x) == BigLow(x, Limbs64)

\* the greatest CAmount, 2^63 - 1, and the bit pattern of the least
MaxInt64 == BigSub(BigPow2(63), <<1>>)
MinInt64 == BigPow2(63)

\* a CAmount below zero
Negative(amount) == BigLessEq(MinInt64, amount)

\* ------------------------------------------------ CalculateFractionalPrice
BigSatoshi == BigFromInt(SATOSHIDEN)

BigSatoshiSquared == BigMul(BigSatoshi, BigSatoshi)

\* answer++ of a CAmount: the values the increment may leave. Beyond the
\* greatest CAmount the signed increment overflows, which the language
\* leaves undefined: the value wraps to the least CAmount or stays.
Increment(answer) ==
    IF answer = MaxInt64
    THEN {MinInt64, MaxInt64}
    ELSE {GetLow64(BigAdd(answer, <<1>>))}

\* remainder && roundup
RoundsUp(remainder, roundup) == remainder # BigZero /\ roundup

\* the outcomes of CalculateFractionalPrice: the CAmount returned, or the
\* uint_error thrown by the division by zero
CalculateFractionalPrice(smallNumerator, smallDenominator, roundup) ==
    LET denominator == BigMul(smallDenominator, BigSatoshi)
        numerator == BigMul(smallNumerator, BigSatoshiSquared)
    IN  IF denominator = BigZero
        THEN {[threw |-> TRUE, answer |-> BigZero]}
        ELSE LET bigAnswer == BigDivide(numerator, denominator)
                 remainder ==
                     GetLow64(BigSub(numerator, BigMul(bigAnswer, denominator)))
                 answer == GetLow64(bigAnswer)
             IN  IF RoundsUp(remainder, roundup)
                 THEN {[threw |-> FALSE, answer |-> a] : a \in Increment(answer)}
                 ELSE {[threw |-> FALSE, answer |-> answer]}

\* the numerator that brings the rounded down price to the greatest CAmount
\* over the denominator SATOSHIDEN - 1
OverflowNumerator == BigSub(MaxInt64, BigDivide(MaxInt64, BigSatoshi))

\* the amounts a price is asked for: small ones, the scale and its
\* neighbour, powers of two, the greatest CAmount and -1
Amounts ==
    {BigFromInt(v) : v \in 0..MaxSmallAmount}
        \cup {BigSatoshi, BigFromInt(SATOSHIDEN - 1)}
        \cup {BigPow2(k) : k \in {48, 57, 62}}
        \cup {MaxInt64, OverflowNumerator, GetLow64(BigSub(BigZero, <<1>>))}

InitPrice ==
    /\ QueryIdle
    /\ TransfersIdle
    /\ ImportsIdle
    /\ StateIdle
    /\ LaterIdle
    /\ priceNumerator \in Amounts
    /\ priceDenominator \in Amounts
    /\ priceRoundup \in BOOLEAN
    /\ priceAnswer = BigZero
    /\ pricePc = "call"

\* one call of CalculateFractionalPrice
ComputePrice ==
    /\ pricePc = "call"
    /\ \E out \in CalculateFractionalPrice(priceNumerator, priceDenominator,
                                           priceRoundup) :
           /\ pricePc' = IF out.threw THEN "threw" ELSE "done"
           /\ priceAnswer' = out.answer
    /\ UNCHANGED <<queryVars, transferVars, importVars, stateVars, laterCalls,
                   priceNumerator, priceDenominator, priceRoundup>>

NextPrice == ComputePrice

SpecPrice == InitPrice /\ [][NextPrice]_vars

\* ------------------------------------------------- what the claims speak of
\* a price was returned for a numerator that is not negative and a
\* denominator above zero
Priced ==
    /\ pricePc = "done"
    /\ ~Negative(priceNumerator)
    /\ ~Negative(priceDenominator)
    /\ priceDenominator # BigZero

\* r * d * scale <= n * scale^2 < (r + 1) * d * scale, over the integers
IsFloor(r, n, d) ==
    /\ ~Negative(r)
    /\ BigLessEq(BigMul(r, BigMul(d, BigSatoshi)), BigMul(n, BigSatoshiSquared))
    /\ BigLess(BigMul(n, BigSatoshiSquared),
               BigMul(BigAdd(r, <<1>>), BigMul(d, BigSatoshi)))

\* n * scale^2 mod (d * scale) # 0
LeavesRemainder(n, d) ==
    BigDivMod(BigMul(n, BigSatoshiSquared), BigMul(d, BigSatoshi)).rem # BigZero

\* the price rounded down
RoundedDown(n, d) ==
    (CHOOSE out \in CalculateFractionalPrice(n, d, FALSE) : TRUE).answer

\* C11: with roundup off, for a numerator n >= 0 and a denominator d > 0 the
\* value r returned satisfies r*d*scale <= n*scale^2 < (r+1)*d*scale: it is
\* the exact floor, never a truncated quotient.
C11_RoundDownIsFloor ==
    (Priced /\ ~priceRoundup)
        => IsFloor(priceAnswer, priceNumerator, priceDenominator)

\* C12: with roundup on, for n >= 0 and d > 0 the value returned is the
\* rounded down value plus 1 when n*scale^2 mod (d*scale) is not zero, and
\* the rounded down value otherwise.
C12_RoundUpAddsOneOnRemainder ==
    (Priced /\ priceRoundup)
        => priceAnswer =
               IF LeavesRemainder(priceNumerator, priceDenominator)
               THEN GetLow64(BigAdd(RoundedDown(priceNumerator,
                                                priceDenominator), <<1>>))
               ELSE RoundedDown(priceNumerator, priceDenominator)

\* ====================================================== the transfer scans
\* GetChainTransfers and GetUnspentChainTransfers read the address index of
\* reserve transfer outputs.  An index entry is a record
\*   txhash      the transaction of the record
\*   blockHeight the block of that transaction
\*   spending    the record is the input side: the transaction spends the
\*               output prevout
\*   prevout     the transaction of the output spent (NullHash otherwise)
\*   txFound     myGetTransaction / view.GetCoins finds the transaction
\*   script      what the output's script decodes to
\*   rt          the reserve transfer in the output
\* Every output has one receiving record; a spent output has one spending
\* record besides, at or after the block of the output.

\* entries of the reserve transfer index
MaxTransfers == 3

\* uint160(): no currency
NullCurrency == 0

\* the currencies transfers go to
TransferCurrencies == {1, 2}

\* COptCCParams::VERSION_V3
VERSION_V3 == 3

\* the transaction of the i-th record that creates an output
TransferHash(i) == i

\* the transaction of the i-th record when it spends an output
SpendingHash(i) == MaxTransfers + 1 + i

\* the script of an output that holds a reserve transfer:
\*   isTransfer  IsPayToCryptoCondition(p) && p.evalCode == EVAL_RESERVE_TRANSFER
\*   vDataSize   p.vData.size()
\*   version     p.version
\*   masterValid the COptCCParams of the master data is valid
TransferScript ==
    [isTransfer |-> TRUE, vDataSize |-> 2, version |-> VERSION_V3,
     masterValid |-> TRUE]

\* scripts that differ from it in one respect each
OtherScripts ==
    {[TransferScript EXCEPT !.isTransfer = FALSE],
     [TransferScript EXCEPT !.vDataSize = 1],
     [TransferScript EXCEPT !.version = VERSION_V3 - 1],
     [TransferScript EXCEPT !.masterValid = FALSE]}

\* a reserve transfer: valid (IsValid), flags, FirstCurrency(), destCurrencyID
Transfer(valid, flags, first, dest) ==
    [valid |-> valid, flags |-> flags, firstCurrency |-> first,
     destCurrencyID |-> dest]

\* the plain transfer to a currency
PlainTransfer(dest) == Transfer(TRUE, {"VALID"}, 1, dest)

\* the transfers of the model: plain ones, one without destination, one
\* imported to its source, one preconversion, one that is not valid
RoutedTransfers ==
    {PlainTransfer(c) : c \in TransferCurrencies \cup {NullCurrency}}
        \cup {Transfer(TRUE, {"VALID", "IMPORT_TO_SOURCE"}, 1, 2),
              Transfer(TRUE, {"VALID", "PRECONVERT"}, 1, 1),
              Transfer(FALSE, {}, NullCurrency, NullCurrency)}

\* the record of a new output
ReceiveEntries(i, heights, founds, scripts, transfers) ==
    {[txhash |-> TransferHash(i), blockHeight |-> h, spending |-> FALSE,
      prevout |-> NullHash, txFound |-> f, script |-> sc, rt |-> t]
        : h \in heights, f \in founds, sc \in scripts, t \in transfers}

\* the outputs of a history that no later record spends
UnspentOutputs(history) ==
    SelectSeq(history,
              LAMBDA e : /\ ~e.spending
                         /\ \A j \in 1..Len(history) :
                                ~(history[j].spending
                                  /\ history[j].prevout = e.txhash))

\* the record of a transaction that spends an unspent output of the history;
\* the output of the spending transaction at the index of the record is a
\* transfer output of its own
SpendingEntries(i, heights, history) ==
    LET open == UnspentOutputs(history)
    IN  {[txhash |-> SpendingHash(i), blockHeight |-> h, spending |-> TRUE,
          prevout |-> open[j].txhash, txFound |-> TRUE,
          script |-> TransferScript, rt |-> PlainTransfer(1)]
            : h \in heights, j \in 1..Len(open)}

\* the block of the last record
LastHeight(history) ==
    IF history = <<>> THEN 1 ELSE history[Len(history)].blockHeight

\* the histories of at most max records in the order of their blocks
RECURSIVE TransferHistories(_, _, _, _, _, _)
TransferHistories(max, lastBlock, founds, scripts, transfers, spends) ==
    IF max = 0 THEN {<<>>}
    ELSE LET shorter == TransferHistories(max - 1, lastBlock, founds,
                                          scripts, transfers, spends)
             Entries(h) ==
                 ReceiveEntries(max, LastHeight(h)..lastBlock, founds,
                                scripts, transfers)
                     \cup (IF spends
                           THEN SpendingEntries(max,
                                                LastHeight(h)..lastBlock, h)
                           ELSE {})
         IN  shorter
                 \cup UNION {{Append(h, e) : e \in Entries(h)}
                               : h \in {x \in shorter : Len(x) = max - 1}}

\* GetAddressIndex: the records of the blocks start..end
GetAddressIndex(history, start, end) ==
    SelectSeq(history,
              LAMBDA e : start <= e.blockHeight /\ e.blockHeight <= end)

\* GetAddressUnspent: the records of the outputs that are not spent
GetAddressUnspent(history) == UnspentOutputs(history)

\* a key that disregards the import to the source
DeclaredDestination(rt) == rt.destCurrencyID

\* the currency a transfer is keyed by
EffectiveDestination(rt) ==
    IF "IMPORT_TO_SOURCE" \in rt.flags THEN rt.firstCurrency
    ELSE rt.destCurrencyID

\* a scan that reads the spending records as well
SkipsNoRecord(entry) == FALSE

\* the records GetChainTransfers passes over without reading them
SkipsRecord(entry) == entry.spending

\* a scan that goes on after a transaction it cannot retrieve
MissingTransactionSkipped == FALSE

\* GetChainTransfers gives up at a transaction it cannot retrieve
MissingTransactionFails == TRUE

\* the condition under which GetChainTransfers takes an output
ChainTransferTaken(entry, nofilter, chainFilter, flags) ==
    /\ entry.script.isTransfer
    /\ entry.script.vDataSize > 1
    /\ entry.rt.valid
    /\ entry.script.masterValid
    /\ (nofilter \/ EffectiveDestination(entry.rt) = chainFilter)
    /\ flags \subseteq entry.rt.flags

\* what GetChainTransfers inserts for an output
ChainDescriptor(entry) == [txhash |-> entry.txhash, rt |-> entry.rt]

\* the loop of GetChainTransfers from record it on
RECURSIVE ChainTransfersFrom(_, _, _, _, _, _)
ChainTransfersFrom(addressIndex, it, inputDescriptors, nofilter, chainFilter, flags) ==
    IF it > Len(addressIndex)
    THEN [ret |-> TRUE, inputDescriptors |-> inputDescriptors]
    ELSE LET entry == addressIndex[it]
             Continue(found) ==
                 ChainTransfersFrom(addressIndex, it + 1, found, nofilter,
                                    chainFilter, flags)
         IN  IF SkipsRecord(entry) THEN Continue(inputDescriptors)
             ELSE IF entry.txFound
             THEN IF ChainTransferTaken(entry, nofilter, chainFilter, flags)
                  THEN Continue(MultimapInsert(inputDescriptors,
                                    EffectiveDestination(entry.rt),
                                    ChainDescriptor(entry)))
                  ELSE Continue(inputDescriptors)
             ELSE IF MissingTransactionFails
             THEN [ret |-> FALSE, inputDescriptors |-> inputDescriptors]
             ELSE Continue(inputDescriptors)

\* GetChainTransfers; flags is the set of the bits asked for
GetChainTransfers(history, available, inputDescriptors, chainFilter, start, end, flags) ==
    LET asked == IF flags = {} THEN {"VALID"} ELSE flags
        nofilter == chainFilter = NullCurrency
    IN  IF ~available
        THEN [ret |-> FALSE, inputDescriptors |-> inputDescriptors]
        ELSE ChainTransfersFrom(GetAddressIndex(history, start, end), 1,
                                inputDescriptors, nofilter, chainFilter,
                                asked)

\* coins.IsAvailable: the output is not spent
IsAvailable(history, entry) ==
    \A j \in 1..Len(history) :
        ~(history[j].spending /\ history[j].prevout = entry.txhash)

\* the condition under which GetUnspentChainTransfers takes an output
UnspentTransferTaken(entry, nofilter, chainFilter) ==
    /\ entry.script.isTransfer
    /\ entry.script.vDataSize > 0
    /\ entry.script.version >= VERSION_V3
    /\ entry.script.masterValid
    /\ entry.rt.valid
    /\ EffectiveDestination(entry.rt) # NullCurrency
    /\ (nofilter \/ EffectiveDestination(entry.rt) = chainFilter)

\* what GetUnspentChainTransfers inserts for an output: ChainTransferData
UnspentDescriptor(entry) ==
    [txhash |-> entry.txhash, rt |-> entry.rt, nHeight |-> entry.blockHeight]

\* the loop of GetUnspentChainTransfers from record it on
RECURSIVE UnspentTransfersFrom(_, _, _, _, _, _)
UnspentTransfersFrom(history, unspentOutputs, it, inputDescriptors, nofilter, chainFilter) ==
    IF it > Len(unspentOutputs)
    THEN [ret |-> TRUE, inputDescriptors |-> inputDescriptors]
    ELSE LET entry == unspentOutputs[it]
             Continue(found) ==
                 UnspentTransfersFrom(history, unspentOutputs, it + 1, found,
                                      nofilter, chainFilter)
         IN  IF entry.txFound
             THEN IF /\ IsAvailable(history, entry)
                     /\ UnspentTransferTaken(entry, nofilter, chainFilter)
                  THEN Continue(MultimapInsert(inputDescriptors,
                                    EffectiveDestination(entry.rt),
                                    UnspentDescriptor(entry)))
                  ELSE Continue(inputDescriptors)
             ELSE Continue(inputDescriptors)

\* GetUnspentChainTransfers
GetUnspentChainTransfers(history, available, inputDescriptors, chainFilter) ==
    LET nofilter == chainFilter = NullCurrency
    IN  IF ~available
        THEN [ret |-> FALSE, inputDescriptors |-> inputDescriptors]
        ELSE UnspentTransfersFrom(history, GetAddressUnspent(history), 1,
                                  inputDescriptors, nofilter, chainFilter)

\* a scan with the arguments of a call, into an empty map as the caller of
\* GetUnspentChainTransfers passes it
Scan(call) ==
    IF call.fn = "GetChainTransfers"
    THEN GetChainTransfers(transferHistory, indexAvailable, <<>>,
                           call.chainFilter, call.start, call.end, call.flags)
    ELSE GetUnspentChainTransfers(transferHistory, indexAvailable, <<>>,
                                  call.chainFilter)

\* the arguments of the calls
ChainCalls ==
    {[fn |-> "GetChainTransfers", chainFilter |-> c, start |-> a, end |-> b,
      flags |-> f]
        : c \in TransferCurrencies \cup {NullCurrency},
          a \in 1..MaxBlockHeight, b \in 1..MaxBlockHeight,
          f \in {{}, {"VALID", "PRECONVERT"}}}

UnspentCalls ==
    {[fn |-> "GetUnspentChainTransfers", chainFilter |-> c, start |-> 0,
      end |-> 0, flags |-> {}]
        : c \in TransferCurrencies \cup {NullCurrency}}

\* outputs that decode in every way, found or not, all to one currency
InitDecodeCases ==
    /\ indexAvailable = TRUE
    /\ transferHistory \in
         TransferHistories(MaxTransfers - 1, 1, BOOLEAN,
                           {TransferScript} \cup OtherScripts,
                           {PlainTransfer(1)}, FALSE)

\* transfers of every kind in outputs that decode
InitRoutingCases ==
    /\ indexAvailable = TRUE
    /\ transferHistory \in
         TransferHistories(MaxTransfers - 1, 1, {TRUE}, {TransferScript},
                           RoutedTransfers, FALSE)

\* outputs of several blocks, some spent since
InitSpendCases ==
    /\ indexAvailable = TRUE
    /\ transferHistory \in
         TransferHistories(MaxTransfers, MaxBlockHeight, {TRUE},
                           {TransferScript},
                           {PlainTransfer(c) : c \in TransferCurrencies},
                           TRUE)

\* the index cannot be read
InitNoIndexCases ==
    /\ indexAvailable = FALSE
    /\ transferHistory \in
         TransferHistories(1, 1, {TRUE}, {TransferScript},
                           {PlainTransfer(1)}, FALSE)

InitTransfers ==
    /\ QueryIdle
    /\ PriceIdle
    /\ ImportsIdle
    /\ StateIdle
    /\ LaterIdle
    /\ transferResults = <<>>
    /\ \/ InitDecodeCases
       \/ InitRoutingCases
       \/ InitSpendCases
       \/ InitNoIndexCases

Scanned(call) ==
    /\ transferResults' =
         Append(transferResults,
                [call |-> call, ret |-> Scan(call).ret,
                 inputDescriptors |-> Scan(call).inputDescriptors])
    /\ UNCHANGED <<queryVars, priceVars, importVars, stateVars, laterCalls,
                   transferHistory, indexAvailable>>

\* one call of GetChainTransfers, under cs_main and mempool.cs
CallGetChainTransfers ==
    /\ transferResults = <<>>
    /\ \E call \in ChainCalls : Scanned(call)

\* one call of GetUnspentChainTransfers, under cs_main
CallGetUnspentChainTransfers ==
    /\ transferResults = <<>>
    /\ \E call \in UnspentCalls : Scanned(call)

\* the same call once more over the same index
CallTransfersAgain ==
    /\ Len(transferResults) = 1
    /\ Scanned(transferResults[1].call)

NextTransfers ==
    \/ CallGetChainTransfers
    \/ CallGetUnspentChainTransfers
    \/ CallTransfersAgain

SpecTransfers == InitTransfers /\ [][NextTransfers]_vars


\* ------------------------------------------- what the claims speak of
\* the finished calls of one of the scans
ResultsOf(fn) ==
    {i \in 1..Len(transferResults) : transferResults[i].call.fn = fn}

\* the records a finished call had before it
Scanned0(r) ==
    IF r.call.fn = "GetChainTransfers"
    THEN GetAddressIndex(transferHistory, r.call.start, r.call.end)
    ELSE GetAddressUnspent(transferHistory)

\* the transactions of the outputs a call returned, in the order of the map
Returned(r) ==
    [k \in 1..Len(r.inputDescriptors) |-> r.inputDescriptors[k].value.txhash]

\* no output is twice in the result
NoOutputTwice(r) ==
    \A k, l \in 1..Len(r.inputDescriptors) :
        Returned(r)[k] = Returned(r)[l] => k = l

\* the records before the call hold a spending record for the output
SpentWithin(r, txhash) ==
    \E j \in 1..Len(Scanned0(r)) :
        Scanned0(r)[j].spending /\ Scanned0(r)[j].prevout = txhash

\* the output is created by a record before the call
CreatedWithin(r, txhash) ==
    \E j \in 1..Len(Scanned0(r)) :
        ~Scanned0(r)[j].spending /\ Scanned0(r)[j].txhash = txhash

\* the flags a call of GetChainTransfers asks for
AskedFlags(r) == IF r.call.flags = {} THEN {"VALID"} ELSE r.call.flags

\* the record holds a transfer that the call asks for
Qualifies(r, entry) ==
    /\ ~entry.spending
    /\ entry.txFound
    /\ ChainTransferTaken(entry, r.call.chainFilter = NullCurrency,
                          r.call.chainFilter, AskedFlags(r))

\* C13 (as stated): GetChainTransfers returns no output that a spending
\* record of the indexed history marks as spent, and no output twice.
C13_NoSpentOutputReturned ==
    \A i \in ResultsOf("GetChainTransfers") :
        LET r == transferResults[i]
        IN  /\ \A k \in 1..Len(Returned(r)) : ~SpentWithin(r, Returned(r)[k])
            /\ NoOutputTwice(r)

\* C13 (amended): GetChainTransfers passes over the spending records of the
\* index: every output it returns is one created by a record of the range,
\* no output is returned twice, and a call that succeeds returns every
\* output of the range that holds a transfer asked for, whether or not a
\* later record spends it.
C13_SpendingRecordsSkipped ==
    \A i \in ResultsOf("GetChainTransfers") :
        LET r == transferResults[i]
        IN  /\ \A k \in 1..Len(Returned(r)) : CreatedWithin(r, Returned(r)[k])
            /\ NoOutputTwice(r)
            /\ r.ret =>
                 \A j \in 1..Len(Scanned0(r)) :
                     Qualifies(r, Scanned0(r)[j]) =>
                         \E k \in 1..Len(Returned(r)) :
                             Returned(r)[k] = Scanned0(r)[j].txhash

\* a successful call returned an output that a record of its range spends
C13_Witness ==
    \E i \in ResultsOf("GetChainTransfers") :
        LET r == transferResults[i]
        IN  /\ r.ret
            /\ \E k \in 1..Len(Returned(r)) : SpentWithin(r, Returned(r)[k])


\* the record holds an output that the call reads and takes
TakenBy(r, entry) ==
    IF r.call.fn = "GetChainTransfers" THEN Qualifies(r, entry)
    ELSE /\ entry.txFound
         /\ UnspentTransferTaken(entry, r.call.chainFilter = NullCurrency,
                                 r.call.chainFilter)

\* the transaction of the record is read and cannot be retrieved
Unretrievable(entry) == ~entry.spending /\ ~entry.txFound

\* the first record whose transaction cannot be retrieved, or the end
FirstMissing(r) ==
    LET missing == {j \in 1..Len(Scanned0(r)) : Unretrievable(Scanned0(r)[j])}
    IN  IF missing = {} THEN Len(Scanned0(r)) + 1
        ELSE CHOOSE j \in missing : \A l \in missing : j <= l

\* the outputs taken among the first n records read
TakenBefore(r, n) ==
    {Scanned0(r)[j].txhash : j \in {l \in 1..Len(Scanned0(r)) :
                                      l < n /\ TakenBy(r, Scanned0(r)[l])}}

\* the set of the outputs returned
ReturnedSet(r) == {Returned(r)[k] : k \in 1..Len(Returned(r))}

KeyOf(rt) ==
    IF "IMPORT_TO_SOURCE" \in rt.flags THEN rt.firstCurrency
    ELSE rt.destCurrencyID

\* the record is of an output that is retrieved and holds a valid transfer
ValidTransfer(entry) ==
    /\ ~entry.spending
    /\ entry.txFound
    /\ entry.script.isTransfer
    /\ entry.script.vDataSize > 1
    /\ entry.script.masterValid
    /\ entry.rt.valid

\* every element of the result is keyed by the destination of its transfer
KeyedByDestination(r) ==
    \A k \in 1..Len(r.inputDescriptors) :
        r.inputDescriptors[k].key = KeyOf(r.inputDescriptors[k].value.rt)

\* every key of the result is the filter of the call
KeysAreFilter(r) ==
    \A k \in 1..Len(r.inputDescriptors) :
        r.inputDescriptors[k].key = r.call.chainFilter

\* what each scan asks of a valid transfer besides its destination: the
\* flags of the call, or the version of the script
Admits(r, entry) ==
    IF r.call.fn = "GetChainTransfers"
    THEN AskedFlags(r) \subseteq entry.rt.flags
    ELSE entry.script.version >= VERSION_V3

\* C15 (as stated): every element returned is keyed by the effective
\* destination of its transfer; under a filter every key is the filter and
\* a successful scan returns every valid transfer of the index whose
\* effective destination is the filter.
C15_FilterIsExact ==
    \A i \in 1..Len(transferResults) :
        LET r == transferResults[i]
        IN  /\ KeyedByDestination(r)
            /\ r.call.chainFilter # NullCurrency =>
                 /\ KeysAreFilter(r)
                 /\ r.ret =>
                      \A j \in 1..Len(Scanned0(r)) :
                          (/\ ValidTransfer(Scanned0(r)[j])
                           /\ KeyOf(Scanned0(r)[j].rt) = r.call.chainFilter)
                              => Scanned0(r)[j].txhash \in ReturnedSet(r)

\* C15 (amended): every element returned is keyed by the effective
\* destination of its transfer; under a filter every key is the filter and
\* a successful scan returns every valid transfer of the index whose
\* effective destination is the filter and which the scan admits:
\* GetChainTransfers the transfers that carry all the flags asked for,
\* GetUnspentChainTransfers the outputs of script version 3 or later.
C15_FilterIsExactAmongAdmitted ==
    \A i \in 1..Len(transferResults) :
        LET r == transferResults[i]
        IN  /\ KeyedByDestination(r)
            /\ r.call.chainFilter # NullCurrency =>
                 /\ KeysAreFilter(r)
                 /\ r.ret =>
                      \A j \in 1..Len(Scanned0(r)) :
                          (/\ ValidTransfer(Scanned0(r)[j])
                           /\ Admits(r, Scanned0(r)[j])
                           /\ KeyOf(Scanned0(r)[j].rt) = r.call.chainFilter)
                              => Scanned0(r)[j].txhash \in ReturnedSet(r)

\* a scan under a filter returned a transfer that is imported to its
\* source, under its first currency and not its declared destination
C15_Witness ==
    \E i \in 1..Len(transferResults) :
        LET r == transferResults[i]
        IN  /\ r.ret
            /\ r.call.chainFilter # NullCurrency
            /\ \E k \in 1..Len(r.inputDescriptors) :
                   LET x == r.inputDescriptors[k]
                   IN  /\ "IMPORT_TO_SOURCE" \in x.value.rt.flags
                       /\ x.key = x.value.rt.firstCurrency
                       /\ x.key # x.value.rt.destCurrencyID


\* the place in the records read of the record that created an output
Discovered(r, txhash) ==
    CHOOSE j \in 1..Len(Scanned0(r)) :
        ~Scanned0(r)[j].spending /\ Scanned0(r)[j].txhash = txhash

\* the elements of one key are in the order in which the index gave them
InDiscoveryOrder(r) ==
    \A k, l \in 1..Len(r.inputDescriptors) :
        (k < l /\ r.inputDescriptors[k].key = r.inputDescriptors[l].key)
            => Discovered(r, Returned(r)[k]) < Discovered(r, Returned(r)[l])

\* C17: two calls of GetChainTransfers over the same index with the same
\* filter, range and flags return the same value and the same transfers in
\* the same order, which within each key is the order of the index.
C17_ScanIsDeterministic ==
    \A i, j \in ResultsOf("GetChainTransfers") :
        transferResults[i].call = transferResults[j].call =>
            /\ transferResults[i].ret = transferResults[j].ret
            /\ transferResults[i].inputDescriptors
                   = transferResults[j].inputDescriptors
            /\ InDiscoveryOrder(transferResults[i])

\* GetChainTransfers ran twice and returned two transfers under one key
\* and a transfer under another
C17_Witness ==
    /\ ResultsOf("GetChainTransfers") = {1, 2}
    /\ transferResults[1].call = transferResults[2].call
    /\ \E k, l, n \in 1..Len(transferResults[2].inputDescriptors) :
           /\ k # l
           /\ transferResults[2].inputDescriptors[k].key
                  = transferResults[2].inputDescriptors[l].key
           /\ transferResults[2].inputDescriptors[k].key
                  # transferResults[2].inputDescriptors[n].key


\* ===================================================== submitimports
\* params[0] is a record
\*   sourceSystemOk  the source system is another, actual system
\*   notarizationOk  the notarization transaction and output are valid
\*   exportsIsArray  "exports" is an array
\*   exports         the elements of "exports"
\* and an element of exports is a record
\*   txid            the export transaction (NullHash: none given)
\*   txoutnum        the output of the export (-1: none given)
\*   transfersIsArray "transfers" is an array
\*   proofOk         the partial transaction proof is valid, is of txid, and
\*                   proves the output against the notarized state root
\*   committed       the total of the transfers that the proven export
\*                   output commits to
\*   transfers       the elements of "transfers": [valid, amount]

\* exports of one call
MaxExports == 2

\* the currency the imports are made for
ImportCurrency == 1

\* the transaction of the i-th export of a call
ExportHash(i) == i

\* the transaction of the import that consumes an export
ImportHash(exportTxId) == MaxExports + 1 + exportTxId

\* a transfer of an amount, and one that does not parse as valid
ImportTransfer(amount) == [valid |-> TRUE, amount |-> amount]

InvalidTransfer == [valid |-> FALSE, amount |-> 0]

\* the transfer arrays of the model
TransferArrays ==
    {<<>>, <<InvalidTransfer>>, <<ImportTransfer(1), InvalidTransfer>>}
        \cup {<<ImportTransfer(a)>> : a \in 1..2}
        \cup {<<ImportTransfer(a), ImportTransfer(b)>> : a, b \in 1..2}

\* an export that is read without an error
GoodExports(i) ==
    {[txid |-> ExportHash(i), txoutnum |-> 0, transfersIsArray |-> TRUE,
      proofOk |-> TRUE, committed |-> c, transfers |-> t]
        : c \in 1..3, t \in TransferArrays}

\* exports that fail one of the tests of the loop
BadExports(i) ==
    LET good == [txid |-> ExportHash(i), txoutnum |-> 0,
                 transfersIsArray |-> TRUE, proofOk |-> TRUE,
                 committed |-> 1, transfers |-> <<ImportTransfer(1)>>]
    IN  {[good EXCEPT !.txid = NullHash],
         [good EXCEPT !.txoutnum = -1],
         [good EXCEPT !.transfersIsArray = FALSE],
         [good EXCEPT !.proofOk = FALSE]}

\* the arrays of at most max exports
RECURSIVE ExportArrays(_)
ExportArrays(max) ==
    IF max = 0 THEN {<<>>}
    ELSE LET shorter == ExportArrays(max - 1)
         IN  shorter
                 \cup {Append(x, e) : x \in {y \in shorter : Len(y) = max - 1},
                                      e \in GoodExports(max) \cup BadExports(max)}

\* the total of the amounts of transfers
RECURSIVE TotalOf(_)
TotalOf(transfers) ==
    IF transfers = <<>> THEN 0
    ELSE transfers[1].amount + TotalOf(Tail(transfers))

\* the test at the head of the loop over the exports
ExportNamed(e) ==
    ~(e.txid = NullHash \/ e.txoutnum = -1 \/ ~e.transfersIsArray)

\* the test of the proof of an export
ExportProven(e) == e.proofOk

\* the loop that pushes the transfers of an export: the transfers read, or
\* an error at the first one that is not valid
ReadTransfers(e) ==
    IF \E j \in 1..Len(e.transfers) : ~e.transfers[j].valid
    THEN [threw |-> TRUE, transfers |-> <<>>]
    ELSE [threw |-> FALSE, transfers |-> e.transfers]

\* the loop over the exports: the vector exports, or an error
RECURSIVE ReadExports(_, _, _)
ReadExports(exportsUni, i, exports) ==
    IF i > Len(exportsUni) THEN [threw |-> FALSE, exports |-> exports]
    ELSE LET e == exportsUni[i]
         IN  IF ~ExportNamed(e) \/ ~ExportProven(e) \/ ReadTransfers(e).threw
             THEN [threw |-> TRUE, exports |-> <<>>]
             ELSE ReadExports(exportsUni, i + 1,
                      Append(exports,
                             [txid |-> e.txid, txoutnum |-> e.txoutnum,
                              committed |-> e.committed,
                              transfers |-> ReadTransfers(e).transfers]))

\* an import balances against its export: the total of the transfers it
\* brings in is the total the export commits to
Balances(export) == TotalOf(export.transfers) = export.committed

\* the import made for an export
ImportOf(export) ==
    [currencyid |-> ImportCurrency, txid |-> ImportHash(export.txid),
     txoutnum |-> 0]

\* CConnectedChains::CreateLatestImports: an import for each export in
\* turn that balances; at an export that does not balance it makes none,
\* and either goes on to the next export or ends
RECURSIVE CreateLatestImports(_, _, _)
CreateLatestImports(exports, i, newImports) ==
    IF i > Len(exports) THEN {newImports}
    ELSE IF Balances(exports[i])
    THEN CreateLatestImports(exports, i + 1,
                             Append(newImports, ImportOf(exports[i])))
    ELSE {newImports} \cup CreateLatestImports(exports, i + 1, newImports)

\* a reply with an import for every export read
ImportsOfAllExports(exports, newImports) ==
    [k \in 1..Len(exports) |-> ImportOf(exports[k])]

\* the reply of submitimports: the imports made
ImportsReturned(exports, newImports) == newImports

\* submitimports: the replies it can give
submitimports(params) ==
    IF ~params.sourceSystemOk \/ ~params.notarizationOk
       \/ ~params.exportsIsArray \/ params.exports = <<>>
    THEN {[threw |-> TRUE, result |-> <<>>]}
    ELSE LET read == ReadExports(params.exports, 1, <<>>)
         IN  IF read.threw THEN {[threw |-> TRUE, result |-> <<>>]}
             ELSE {[threw |-> FALSE,
                    result |-> ImportsReturned(read.exports, newImports)]
                     : newImports \in CreateLatestImports(read.exports, 1,
                                                          <<>>)}

\* the calls: well-formed parameters with every array of exports, and the
\* parameters that fail before the exports are read
ImportCalls ==
    {[sourceSystemOk |-> TRUE, notarizationOk |-> TRUE,
      exportsIsArray |-> TRUE, exports |-> x] : x \in ExportArrays(MaxExports)}
        \cup {[sourceSystemOk |-> a, notarizationOk |-> b,
               exportsIsArray |-> c, exports |-> x]
                : a, b, c \in BOOLEAN, x \in ExportArrays(0)
                                              \cup {<<e>> : e \in BadExports(1)}}

InitImports ==
    /\ QueryIdle
    /\ PriceIdle
    /\ TransfersIdle
    /\ StateIdle
    /\ LaterIdle
    /\ importParams \in ImportCalls
    /\ importPc = "call"
    /\ importResult = <<>>

\* one call of submitimports, under cs_main and mempool.cs
SubmitImports ==
    /\ importPc = "call"
    /\ \E out \in submitimports(importParams) :
           /\ importPc' = IF out.threw THEN "threw" ELSE "done"
           /\ importResult' = out.result
    /\ UNCHANGED <<queryVars, priceVars, transferVars, stateVars, laterCalls,
                   importParams>>

NextImports == SubmitImports

SpecImports == InitImports /\ [][NextImports]_vars

\* ------------------------------------------- what the claims speak of
\* the call has ended, with a reply or an error
Submitted == importPc \in {"done", "threw"}

\* the reply names an import that consumes the export
ImportMadeFor(e) ==
    \E k \in 1..Len(importResult) : importResult[k].txid = ImportHash(e.txid)

\* the transfers supplied for the export do not balance against it
Unbalanced(e) ==
    TotalOf(SelectSeq(e.transfers, LAMBDA t : t.valid)) # e.committed

MaxCurrencies == 2

\* the greatest amount of a definition
MaxStateAmount == 2

\* std::vector<T>(n): n elements of value zero
ZeroVector(n) == [k \in 1..n |-> 0]

\* the weights and prices of the model: a half and one, in satoshis
Ratios == {SATOSHIDEN \div 2, SATOSHIDEN}

\* the definitions of n reserve currencies.  A fractional currency has a
\* reserve, a weight and a contribution for each, and its preconverted
\* amounts start as its contributions and grow from there; a currency that
\* is not fractional has a price for each reserve and may have no weights.
Definitions(n) ==
    LET ids == [k \in 1..n |-> k]
        amounts == [1..n -> 0..MaxStateAmount]
        ratios == [1..n -> Ratios]
        Fractional(c) ==
            {[isFractional |-> TRUE, currencies |-> ids, weights |-> w,
              conversions |-> <<>>, contributions |-> c, preconverted |-> a,
              initialFractionalSupply |-> q]
                : w \in ratios, q \in 0..MaxStateAmount,
                  a \in {c, [k \in 1..n |-> MaxStateAmount]}}
    IN  (IF n = 0 THEN {} ELSE UNION {Fractional(c) : c \in amounts})
        \cup {[isFractional |-> FALSE, currencies |-> ids, weights |-> w,
               conversions |-> v, contributions |-> a, preconverted |-> a,
               initialFractionalSupply |-> 0]
                : w \in {<<>>, [k \in 1..n |-> SATOSHIDEN]},
                  v \in ratios, a \in amounts}

\* CCurrencyState::CCurrencyState: weights and reserves that are not of the
\* length of the currencies are replaced by zeros of that length
CCurrencyState(currencies, weights, reserves, initialSupply, emitted, supply, fractional) ==
    [currencies |-> currencies,
     weights |-> IF Len(weights) # Len(currencies)
                 THEN ZeroVector(Len(currencies)) ELSE weights,
     reserves |-> IF Len(reserves) # Len(currencies)
                  THEN ZeroVector(Len(currencies)) ELSE reserves,
     initialSupply |-> initialSupply, emitted |-> emitted, supply |-> supply,
     fractional |-> fractional]

\* CCurrencyState(): the state before anything is assigned
DefaultCurrencyState ==
    [currencies |-> <<>>, weights |-> <<>>, reserves |-> <<>>,
     initialSupply |-> 0, emitted |-> 0, supply |-> 0, fractional |-> FALSE]

\* CCurrencyState::PricesInReserve: the price in each reserve; a currency
\* that is not fractional is priced by its reserves entries
PricesInReserve(cState) ==
    [k \in 1..Len(cState.currencies) |->
        IF ~cState.fractional THEN cState.reserves[k]
        ELSE IF cState.supply = 0 \/ cState.weights[k] = 0 THEN 0
        ELSE ((cState.reserves[k] * SATOSHIDEN) \div cState.supply)
                 * (SATOSHIDEN \div cState.weights[k])]

\* CCurrencyState::ReserveToNative of a value map: the native worth of the
\* amounts at the prices of the state
RECURSIVE ReserveToNative(_, _, _)
ReserveToNative(cState, amounts, k) ==
    IF k > Len(amounts) THEN 0
    ELSE (amounts[k] * SATOSHIDEN) \div PricesInReserve(cState)[k]
             + ReserveToNative(cState, amounts, k + 1)

\* a fractional state seeded with what was preconverted
FractionalStateSeeded(currencyDef) ==
    CCurrencyState(currencyDef.currencies, currencyDef.weights,
                   currencyDef.preconverted,
                   currencyDef.initialFractionalSupply, 0,
                   currencyDef.initialFractionalSupply, TRUE)

\* the state of a fractional currency
FractionalState(currencyDef) ==
    CCurrencyState(currencyDef.currencies, currencyDef.weights,
                   ZeroVector(Len(currencyDef.currencies)),
                   currencyDef.initialFractionalSupply, 0,
                   currencyDef.initialFractionalSupply, TRUE)

\* the state that the other branch assigns before it constructs
AssignedState(currencyDef) ==
    [DefaultCurrencyState EXCEPT !.currencies = currencyDef.currencies,
                                 !.reserves = currencyDef.conversions]

\* a state left as it was assigned
NonFractionalStateAssigned(currencyDef) == AssignedState(currencyDef)

\* a state whose reserves are what was preconverted
NonFractionalStatePassThrough(currencyDef) ==
    CCurrencyState(currencyDef.currencies, <<>>, currencyDef.preconverted, 0,
                   0, 0, FALSE)

\* the state of a currency that is not fractional
NonFractionalState(currencyDef) ==
    LET PreconvertedNative ==
            ReserveToNative(AssignedState(currencyDef), currencyDef.preconverted, 1)
    IN  CCurrencyState(currencyDef.currencies, <<>>, currencyDef.conversions, 0,
                       PreconvertedNative, PreconvertedNative, FALSE)

\* CCoinbaseCurrencyState::CCoinbaseCurrencyState
CCoinbaseCurrencyState(cState, nativeOut, nativeFees, nativeConversionFees, reserveIn, nativeIn, reserveOut, conversionPrice, viaConversionPrice, fees, conversionFees, preConvertedOut, priorWeights) ==
    [state |-> cState, nativeOut |-> nativeOut, nativeFees |-> nativeFees,
     nativeConversionFees |-> nativeConversionFees, reserveIn |-> reserveIn,
     nativeIn |-> nativeIn, reserveOut |-> reserveOut,
     conversionPrice |-> conversionPrice,
     viaConversionPrice |-> viaConversionPrice, fees |-> fees,
     conversionFees |-> conversionFees, preConvertedOut |-> preConvertedOut,
     priorWeights |-> priorWeights]

\* GetInitialCurrencyState
GetInitialCurrencyState(currencyDef) ==
    LET n == Len(currencyDef.currencies)
        reserveFees == ZeroVector(n)
        cState == IF currencyDef.isFractional THEN FractionalState(currencyDef)
                  ELSE NonFractionalState(currencyDef)
        conversions == IF currencyDef.isFractional THEN PricesInReserve(cState)
                       ELSE currencyDef.conversions
    IN  CCoinbaseCurrencyState(cState, 0, 0, 0, currencyDef.preconverted,
                               ZeroVector(n), ZeroVector(n), conversions,
                               ZeroVector(n), reserveFees, reserveFees, 0,
                               ZeroVector(n))

InitState ==
    /\ QueryIdle
    /\ PriceIdle
    /\ TransfersIdle
    /\ ImportsIdle
    /\ LaterIdle
    /\ stateChainDef \in UNION {Definitions(n) : n \in 0..MaxCurrencies}
    /\ statePc = "call"
    /\ stateResult = <<>>

\* one call of GetInitialCurrencyState
ComputeInitialState ==
    /\ statePc = "call"
    /\ statePc' = "done"
    /\ stateResult' = GetInitialCurrencyState(stateChainDef)
    /\ UNCHANGED <<queryVars, priceVars, transferVars, importVars, laterCalls,
                   stateChainDef>>

NextState == ComputeInitialState

SpecState == InitState /\ [][NextState]_vars

\* ------------------------------------------- what the claims speak of
\* the state of a definition of the given kind was returned
StateReturned(fractional) ==
    statePc = "done" /\ stateChainDef.isFractional = fractional

\* C18 (as stated): the state returned for a fractional definition has the
\* configured initial contributions as reserves, the configured weights as
\* weights and initialFractionalSupply as supply.
C18_FractionalSeededFromContributions ==
    StateReturned(TRUE) =>
        /\ stateResult.state.reserves = stateChainDef.contributions
        /\ stateResult.state.weights = stateChainDef.weights
        /\ stateResult.state.supply = stateChainDef.initialFractionalSupply

\* C18 (amended): the state returned for a fractional definition has zero
\* reserves, one for each reserve currency, the configured weights as
\* weights, and initialFractionalSupply as supply and as initial supply;
\* what was preconverted of each reserve is returned as the reserve that
\* comes in, not as reserves.
C18_FractionalStartsWithoutReserves ==
    StateReturned(TRUE) =>
        /\ stateResult.state.reserves
               = ZeroVector(Len(stateChainDef.currencies))
        /\ stateResult.state.weights = stateChainDef.weights
        /\ stateResult.state.supply = stateChainDef.initialFractionalSupply
        /\ stateResult.state.initialSupply
               = stateChainDef.initialFractionalSupply
        /\ stateResult.reserveIn = stateChainDef.preconverted

\* a state was returned for a fractional definition with contributions
\* and preconversions above zero
C18_Witness ==
    /\ StateReturned(TRUE)
    /\ Len(stateChainDef.currencies) = MaxCurrencies
    /\ \A k \in 1..MaxCurrencies :
           /\ stateChainDef.contributions[k] > 0
           /\ stateChainDef.preconverted[k] > 0
    /\ stateChainDef.initialFractionalSupply > 0


\* C19 (as stated): the state returned for a definition that is not
\* fractional has, entry by entry, the preconverted amounts as reserves.
C19_ReservesArePreconverted ==
    StateReturned(FALSE) =>
        stateResult.state.reserves = stateChainDef.preconverted

\* C19 (amended): the state returned for a definition that is not
\* fractional, with a price for each reserve currency, has those prices
\* (the definition's conversions) as reserves, entry by entry; what was
\* preconverted is returned as the reserve that comes in, the prices as the
\* conversion prices, and supply and emitted are one amount, the initial
\* supply being zero.
C19_ReservesAreConversions ==
    StateReturned(FALSE) =>
        /\ stateResult.state.reserves = stateChainDef.conversions
        /\ stateResult.reserveIn = stateChainDef.preconverted
        /\ stateResult.conversionPrice = stateChainDef.conversions
        /\ stateResult.state.supply = stateResult.state.emitted
        /\ stateResult.state.initialSupply = 0

\* a state was returned for a definition that is not fractional and has
\* preconverted amounts above zero of every reserve
C19_Witness ==
    /\ StateReturned(FALSE)
    /\ Len(stateChainDef.currencies) = MaxCurrencies
    /\ \A k \in 1..MaxCurrencies : stateChainDef.preconverted[k] > 0
    /\ stateResult.state.supply > 0

InitExpansion ==
    /\ QueryStart
    /\ PriceIdle
    /\ TransfersIdle
    /\ ImportsIdle
    /\ StateIdle
    /\ LaterIdle
    /\ InitSecondFinalizationCases

\* the steps of a call that is answered from the index
NextExpansion ==
    \/ Begin
    \/ SeedConfirmed
    \/ CollectPending
    \/ ExpandIteration
    \/ SelectBest
    \/ Return

\* the call under the scheduling of a single thread: a call that has a
\* step to take takes it
SpecTerminates ==
    InitExpansion /\ [][NextExpansion]_vars /\ WF_vars(NextExpansion)

\* an iteration of the expansion loop that leaves the loop running
Iterates == pc = "expand" /\ pc' = "expand"

\* C23: every iteration of the expansion loop that adds a record to a fork
\* removes an entry from the pending multimap; at the first iteration that
\* has added nothing, or with the multimap empty, the loop is left; and
\* the loop is left at last for every pending set.
C23_ExpansionTerminates ==
    /\ [][(Iterates /\ Len(notarizationData'.vtx) > Len(notarizationData.vtx))
             => Len(notarizationReferences') < Len(notarizationReferences)]_vars
    /\ [][(pc = "expand"
             /\ (~somethingAdded \/ Len(notarizationReferences) = 0))
             => pc' = "return"]_vars
    /\ (pc = "expand") ~> (pc = "return")

\* the loop has stopped at an iteration that added nothing, after
\* iterations that added records, with entries left in the multimap
C23_Witness ==
    /\ pc = "expand"
    /\ ~somethingAdded
    /\ Len(notarizationData.vtx) > 2
    /\ Len(notarizationReferences) > 0

\* the positions of vtx that hold pending records: all but the seed
PendingPositions == 2..Len(nd.vtx)

\* C24: each pending notarization record is matched at most once: no output
\* reference of a pending record stands at two positions of vtx, and a
\* record that was appended to vtx is no longer in the pending multimap
\* after the iteration that appended it.
C24_MatchedAtMostOnce ==
    /\ \A i, j \in PendingPositions :
           nd.vtx[i].first = nd.vtx[j].first => i = j
    /\ \A i \in PendingPositions :
           \A e \in 1..Len(notarizationReferences) :
               notarizationReferences[e].value # nd.vtx[i]

\* the pending records of the returned vtx
PendingInVtx == {nd.vtx[i] : i \in PendingPositions}

\* the pending notarization of index entry k as a record of vtx
PendingRecord(k) == [first |-> PendingRef(k), second |-> pendingIndex[k].n]

\* C25: on success with a non-home currency the pending records of vtx are
\* exactly the valid pending notarizations of the active chain that refer,
\* directly or indirectly, to the seed: unconnected ones are pruned and no
\* connected one is omitted, whatever the currency type and the seed output.
C25_PendingAreTheConnected ==
    (Done /\ retval /\ ~currencyIsLocal)
        => PendingInVtx = {PendingRecord(k) : k \in Connected}

\* C25 amended: the same, unless the currency is a token whose confirmed
\* index entry is itself a notarization output; the call then returns the
\* seed alone and no pending record, connected or not.
C25_PendingAreTheConnectedWhenPendingRead ==
    (Done /\ retval /\ ~currencyIsLocal)
        => IF TokenShortcut
           THEN PendingInVtx = {}
           ELSE PendingInVtx = {PendingRecord(k) : k \in Connected}

\* a returned index that holds the connected record while two valid records
\* that refer to each other and never reach the seed were pruned
C25_Witness ==
    /\ Done /\ retval /\ ~currencyIsLocal /\ ~TokenShortcut
    /\ Connected # {}
    /\ Cardinality(ValidPending \ Connected) > 1
    /\ Cardinality(PendingInVtx) = Cardinality(Connected)

\* the indexes of the records of a fork index, as the fork paths name them
VtxIndexes(data) == 0..(Len(data.vtx) - 1)

\* C26: whenever GetNotarizationData returns true, vtx and forks are not
\* empty, every index of every fork path is an index of vtx, every fork path
\* starts with 0, every index of vtx occurs in some fork path, bestChain is
\* the number of a fork, and lastConfirmed is 0.
C26_ReturnedIndexIsWellFormed ==
    (Done /\ retval)
        => /\ Len(nd.vtx) > 0
           /\ Len(nd.forks) > 0
           /\ \A f \in 1..Len(nd.forks) :
                  /\ Len(nd.forks[f]) > 0
                  /\ nd.forks[f][1] = 0
                  /\ \A i \in 1..Len(nd.forks[f]) : nd.forks[f][i] \in VtxIndexes(nd)
           /\ \A v \in VtxIndexes(nd) :
                  \E f \in 1..Len(nd.forks) :
                      \E i \in 1..Len(nd.forks[f]) : nd.forks[f][i] = v
           /\ nd.bestChain \in ForkNumbers(nd)
           /\ nd.lastConfirmed = 0

\* a returned index of several forks, one of them longer than two records,
\* whose best chain is not the first fork
C26_Witness ==
    /\ Done /\ retval
    /\ Len(nd.forks) > 1
    /\ \E f \in 1..Len(nd.forks) : Len(nd.forks[f]) > 2
    /\ nd.bestChain > 0

\* ================================================== getbestproofroot
MaxRoots == 3            \* proof roots in the array of one request
MaxRootHeight == 2       \* largest height of a proof root and of the chain

\* the state root of the block of the local chain at a height
ChainStateRoot(height) == height

\* CProofRoot::GetProofRoot(height): the proof root of the local chain
GetProofRoot(height) ==
    [status |-> "ok", rootHeight |-> height, stateRoot |-> ChainStateRoot(height)]

\* the proof roots a request may carry, by what the handler reads of them:
\*   status "ok"       valid, of the local system
\*          "invalid"  CProofRoot::IsValid() fails
\*          "foreign"  systemID is not ASSETCHAINS_CHAINID
\* a state root other than the chain's at that height makes the root differ
\* from the local proof root
ProofRoots21 ==
    [status : {"ok"}, rootHeight : 1..MaxRootHeight, stateRoot : 0..MaxRootHeight]
    \cup [status : {"invalid", "foreign"}, rootHeight : {1}, stateRoot : {0}]

RECURSIVE ProofRootArrays(_)
ProofRootArrays(max) ==
    IF max = 0 THEN {<<>>}
    ELSE LET shorter == ProofRootArrays(max - 1)
         IN  shorter \cup {Append(a, r) : a \in {x \in shorter : Len(x) = max - 1},
                                          r \in ProofRoots21}

\* std::map::insert: nothing is inserted when the key is present
MapInsert(map, key, value) ==
    IF \E i \in 1..Len(map) : map[i].key = key
    THEN map
    ELSE MultimapInsert(map, key, value)

\* std::map::count
MapCount(map, key) == Cardinality({i \in 1..Len(map) : map[i].key = key})

\* the loop over the array from element i on (1-based here, i - 1 in the
\* code): a root that is not valid or not of this system ends the call
RECURSIVE ReadProofRoots(_, _, _)
ReadProofRoots(uniProofRoots, i, proofRootMap) ==
    IF i > Len(uniProofRoots) THEN [threw |-> FALSE, map |-> proofRootMap]
    ELSE IF uniProofRoots[i].status # "ok" THEN [threw |-> TRUE, map |-> <<>>]
    ELSE ReadProofRoots(uniProofRoots, i + 1,
             MapInsert(proofRootMap, uniProofRoots[i].rootHeight,
                       [first |-> i - 1, second |-> uniProofRoots[i]]))

\* the loop over proofRootMap from position it on
RECURSIVE ValidRootsFrom(_, _, _)
ValidRootsFrom(proofRootMap, it, validRoots) ==
    IF it > Len(proofRootMap) THEN validRoots
    ELSE LET oneRoot == proofRootMap[it].value
         IN  ValidRootsFrom(proofRootMap, it + 1,
                 IF MapCount(validRoots, oneRoot.second.rootHeight) > 0
                 THEN validRoots
                 ELSE IF oneRoot.second = GetProofRoot(oneRoot.second.rootHeight)
                 THEN MapInsert(validRoots, oneRoot.second.rootHeight,
                                oneRoot.first)
                 ELSE validRoots)

\* the object returned for a map of valid roots
RootsReturned(validRoots) ==
    IF Len(validRoots) > 0
    THEN [validindexes |-> [i \in 1..Len(validRoots) |-> validRoots[i].value],
          bestindex |-> validRoots[Len(validRoots)].value,
          latestproofroot |-> GetProofRoot(MaxRootHeight)]
    ELSE [latestproofroot |-> GetProofRoot(MaxRootHeight)]

\* getbestproofroot(params): the outcome and the object returned
getbestproofroot(params) ==
    IF params.lastconfirmed = -1 THEN [threw |-> TRUE, retVal |-> <<>>]
    ELSE LET read == ReadProofRoots(params.proofroots, 1, <<>>)
         IN  IF read.threw THEN [threw |-> TRUE, retVal |-> <<>>]
             ELSE [threw |-> FALSE,
                   retVal |-> RootsReturned(ValidRootsFrom(read.map, 1, <<>>))]

\* the functions of the earlier chapters are not called
EarlierIdle ==
    /\ QueryIdle
    /\ PriceIdle
    /\ TransfersIdle
    /\ ImportsIdle
    /\ StateIdle

InitRoots ==
    /\ EarlierIdle
    /\ NodesIdle
    /\ ThreadsIdle
    /\ EstimateIdle
    /\ WalletIdle
    /\ rootParams \in [proofroots : ProofRootArrays(MaxRoots),
                       lastconfirmed : {-1, 0}]
    /\ rootPc = "call"
    /\ rootResult = <<>>

BestProofRoot ==
    /\ rootPc = "call"
    /\ LET r == getbestproofroot(rootParams)
       IN  /\ rootPc' = IF r.threw THEN "threw" ELSE "done"
           /\ rootResult' = r.retVal
    /\ UNCHANGED <<queryVars, priceVars, transferVars, importVars, stateVars,
                   nodeVars, lockVars, estimateVars, walletVars, rootParams>>

NextRoots == BestProofRoot

SpecRoots == InitRoots /\ [][NextRoots]_vars

\* the positions of the array whose root is the local chain's proof root at
\* its height
ValidPositions ==
    {i \in 1..Len(rootParams.proofroots) :
        rootParams.proofroots[i] =
            GetProofRoot(rootParams.proofroots[i].rootHeight)}

\* C21: bestindex is the array index of a valid proof root of the greatest
\* height among all the valid proof roots supplied; a valid root is not
\* ignored because an invalid root of the same height stands earlier in the
\* array.
C21_BestIndexIsLatestValid ==
    (rootPc = "done" /\ ValidPositions # {})
        => /\ "bestindex" \in DOMAIN rootResult
           /\ rootResult.bestindex + 1 \in ValidPositions
           /\ \A j \in ValidPositions :
                  rootParams.proofroots[j].rootHeight
                      <= rootParams.proofroots[rootResult.bestindex + 1].rootHeight

\* ================================== getcurrency: the nodes of a currency
MaxReturnedNodes == 8    \* "shuffle and take 8 nodes"
MaxConfirmedNodes == 9   \* nodes of the last confirmed notarization
MaxOtherNodes == 4       \* nodes of the other notarizations of the best chain

\* networkAddress of node i of the last confirmed notarization
ConfirmedAddress(i) == i

\* networkAddress of node j of the other notarizations of the best chain and
\* of the currency definition
OtherAddress(j) == MaxConfirmedNodes + j

\* what the selection reads: whether the query left a fork index, the nodes
\* of cnd.vtx[cnd.lastConfirmed] and the number of further nodes
NodeCases ==
    [hasForks : {TRUE}, confirmed : 0..MaxConfirmedNodes, others : 0..MaxOtherNodes]
    \cup [hasForks : {FALSE}, confirmed : {0}, others : {0}]

\* the addresses of cnd.vtx[cnd.lastConfirmed].second.nodes
ConfirmedNodes(cnd) == {ConfirmedAddress(i) : i \in 1..cnd.confirmed}

\* vNNodes after the loops over the best chain and over the nodes of the
\* definition; the last confirmed notarization is record 0 of every fork
BestChainNodes(cnd) ==
    ConfirmedNodes(cnd) \cup {OtherAddress(j) : j \in 1..cnd.others}

\* numToRemove = vNNodes.size() - (8 - numConfirmedNodes)
NumToRemove(cnd) ==
    Cardinality(BestChainNodes(cnd)) - (MaxReturnedNodes - cnd.confirmed)

\* the removal loop erases once more than vNNodes has elements
RemovesFromEmpty(cnd) == NumToRemove(cnd) > Cardinality(BestChainNodes(cnd))

\* what the removal loop may leave of vNNodes: each round erases the element
\* at insecure_rand() % vNNodes.size()
AfterRemoval(cnd) ==
    IF NumToRemove(cnd) <= 0 THEN {BestChainNodes(cnd)}
    ELSE {kept \in SUBSET BestChainNodes(cnd) :
             Cardinality(kept) =
                 Cardinality(BestChainNodes(cnd)) - NumToRemove(cnd)}

InitNodes ==
    /\ EarlierIdle
    /\ RootsIdle
    /\ ThreadsIdle
    /\ EstimateIdle
    /\ WalletIdle
    /\ cndNodes \in NodeCases
    /\ nodePc = "call"
    /\ vNNodes = {}
    /\ removedFromEmpty = FALSE

\* the block of getcurrency that fills the member "nodes". A removal from
\* the empty map takes insecure_rand() % 0: the division traps, or the loop
\* goes on with the map still empty
SelectNodes ==
    /\ nodePc = "call"
    /\ IF ~cndNodes.hasForks
       THEN nodePc' = "done" /\ vNNodes' = {} /\ removedFromEmpty' = FALSE
       ELSE IF RemovesFromEmpty(cndNodes)
       THEN /\ removedFromEmpty' = TRUE
            /\ \/ nodePc' = "trapped" /\ vNNodes' = {}
               \/ nodePc' = "done" /\ vNNodes' = ConfirmedNodes(cndNodes)
       ELSE /\ removedFromEmpty' = FALSE
            /\ nodePc' = "done"
            /\ \E kept \in AfterRemoval(cndNodes) :
                   vNNodes' = kept \cup ConfirmedNodes(cndNodes)
    /\ UNCHANGED <<queryVars, priceVars, transferVars, importVars, stateVars,
                   rootVars, lockVars, estimateVars, walletVars, cndNodes>>

NextNodes == SelectNodes

SpecNodes == InitNodes /\ [][NextNodes]_vars

\* C22: getcurrency returns at most 8 nodes, whatever the number of nodes on
\* the notarizations of the best chain and on the last confirmed one, and
\* the selection never removes from an empty node set.
C22_AtMostEightNodes ==
    /\ nodePc = "done" => Cardinality(vNNodes) <= MaxReturnedNodes
    /\ ~removedFromEmpty
    /\ nodePc # "trapped"

\* ============================================ the locks of the handlers
MaxThreads == 2          \* RPC threads that run handlers at the same time
MaxListed == 2           \* currencies that listcurrencies reports

Threads == 1..MaxThreads

\* LOCK(cs): the critical section is entered here and left at the end of
\* the scope
LOCK(cs) == <<[op |-> "lock", arg |-> cs]>>

\* LOCK2(cs1, cs2): both critical sections, in this order
LOCK2(cs1, cs2) == LOCK(cs1) \o LOCK(cs2)

\* the end of the scope of a LOCK
EndLOCK(cs) == <<[op |-> "unlock", arg |-> cs]>>

\* the end of the scope of a LOCK2: the later one is left first
EndLOCK2(cs1, cs2) == EndLOCK(cs2) \o EndLOCK(cs1)

\* a call of a function of this file: the thread is inside the function
\* until it returns
CallOf(function) ==
    <<[op |-> "enter", arg |-> function], [op |-> "return", arg |-> function]>>

\* a handler that takes no lock around its call of the query
Locks_none == CallOf("GetNotarizationData")

\* the body repeated n times
RECURSIVE Repeat(_, _)
Repeat(body, n) == IF n = 0 THEN <<>> ELSE body \o Repeat(body, n - 1)

\* getcurrency: LOCK2 at function scope, two calls of the query
Locks_getcurrency ==
    LOCK2("cs_main", "mempool.cs")
        \o CallOf("GetNotarizationData") \o CallOf("GetNotarizationData")
        \o EndLOCK2("cs_main", "mempool.cs")

\* getlastimportfrom: LOCK(cs_main) at function scope
Locks_getlastimportfrom ==
    LOCK("cs_main") \o CallOf("GetNotarizationData") \o EndLOCK("cs_main")

\* listcurrencies: a LOCK2 around the read of the definitions and a LOCK2 in
\* the body of the loop over them
Locks_listcurrencies ==
    LOCK2("cs_main", "mempool.cs") \o EndLOCK2("cs_main", "mempool.cs")
        \o Repeat(LOCK2("cs_main", "mempool.cs")
                      \o CallOf("GetNotarizationData")
                      \o EndLOCK2("cs_main", "mempool.cs"), MaxListed)

\* getnotarizationdata: LOCK2 at function scope
Locks_getnotarizationdata ==
    LOCK2("cs_main", "mempool.cs") \o CallOf("GetNotarizationData")
        \o EndLOCK2("cs_main", "mempool.cs")

\* estimateconversion: LOCK(cs_main) at function scope
Locks_estimateconversion ==
    LOCK("cs_main") \o CallOf("GetNotarizationData") \o EndLOCK("cs_main")

\* sendcurrency: LOCK2 and the wallet lock at function scope
Locks_sendcurrency ==
    LOCK2("cs_main", "mempool.cs") \o LOCK("cs_wallet")
        \o CallOf("GetNotarizationData")
        \o EndLOCK("cs_wallet") \o EndLOCK2("cs_main", "mempool.cs")

\* GetChainTransfers: LOCK2 before the index is read, held to the return
Locks_GetChainTransfers ==
    LOCK2("cs_main", "mempool.cs") \o CallOf("scan")
        \o EndLOCK2("cs_main", "mempool.cs")

\* GetUnspentChainTransfers: LOCK(cs_main) before the index is read
Locks_GetUnspentChainTransfers ==
    LOCK("cs_main") \o CallOf("unspent scan") \o EndLOCK("cs_main")

\* getpendingtransfers: LOCK(cs_main), then GetUnspentChainTransfers, which
\* enters cs_main once more
Locks_getpendingtransfers ==
    LOCK("cs_main") \o Locks_GetUnspentChainTransfers \o EndLOCK("cs_main")

\* what a thread may run: the handlers of this file that reach the query or
\* a scan, and GetChainTransfers as other files call it
Programs ==
    [getcurrency |-> Locks_getcurrency,
     getlastimportfrom |-> Locks_getlastimportfrom,
     listcurrencies |-> Locks_listcurrencies,
     getnotarizationdata |-> Locks_getnotarizationdata,
     estimateconversion |-> Locks_estimateconversion,
     sendcurrency |-> Locks_sendcurrency,
     GetChainTransfers |-> Locks_GetChainTransfers,
     getpendingtransfers |-> Locks_getpendingtransfers]

CriticalSections == {"cs_main", "mempool.cs", "cs_wallet"}

\* CCriticalSection is a recursive mutex: the owner may enter again; owner
\* is the set of the threads inside, empty or of one thread
MayEnter(sections, cs, t) == sections[cs].owner \subseteq {t}

EnterCritical(sections, cs, t) ==
    [sections EXCEPT ![cs] = [owner |-> {t}, depth |-> @.depth + 1]]

LeaveCritical(sections, cs, t) ==
    [sections EXCEPT ![cs] =
        IF @.depth = 1 THEN [owner |-> {}, depth |-> 0]
        ELSE [owner |-> {t}, depth |-> @.depth - 1]]

ThreadsStart ==
    /\ running = [t \in Threads |-> "none"]
    /\ position = [t \in Threads |-> 1]
    /\ criticalSections =
         [cs \in CriticalSections |-> [owner |-> {}, depth |-> 0]]

InitLocks ==
    /\ EarlierIdle
    /\ RootsIdle
    /\ NodesIdle
    /\ EstimateIdle
    /\ WalletIdle
    /\ ThreadsStart

\* the operation thread t is about to make
NextOp(t) == Programs[running[t]][position[t]]

AtOp(t, op) ==
    /\ running[t] # "none"
    /\ position[t] <= Len(Programs[running[t]])
    /\ NextOp(t).op = op

LocksUnchanged ==
    UNCHANGED <<queryVars, priceVars, transferVars, importVars, stateVars,
                rootVars, nodeVars, estimateVars, walletVars>>

\* an RPC thread takes up a request
Dispatch(t) ==
    /\ running[t] = "none"
    /\ \E handler \in DOMAIN Programs :
           running' = [running EXCEPT ![t] = handler]
    /\ position' = [position EXCEPT ![t] = 1]
    /\ UNCHANGED criticalSections
    /\ LocksUnchanged

\* LOCK: the thread waits until the critical section is free or its own
Acquire(t) ==
    /\ AtOp(t, "lock")
    /\ MayEnter(criticalSections, NextOp(t).arg, t)
    /\ criticalSections' = EnterCritical(criticalSections, NextOp(t).arg, t)
    /\ position' = [position EXCEPT ![t] = @ + 1]
    /\ UNCHANGED running
    /\ LocksUnchanged

\* the end of the scope of a LOCK
Release(t) ==
    /\ AtOp(t, "unlock")
    /\ criticalSections' = LeaveCritical(criticalSections, NextOp(t).arg, t)
    /\ position' = [position EXCEPT ![t] = @ + 1]
    /\ UNCHANGED running
    /\ LocksUnchanged

\* the thread enters a function
EnterFunction(t) ==
    /\ AtOp(t, "enter")
    /\ position' = [position EXCEPT ![t] = @ + 1]
    /\ UNCHANGED <<running, criticalSections>>
    /\ LocksUnchanged

\* the function returns
ReturnFromFunction(t) ==
    /\ AtOp(t, "return")
    /\ position' = [position EXCEPT ![t] = @ + 1]
    /\ UNCHANGED <<running, criticalSections>>
    /\ LocksUnchanged

\* the handler returns its reply
Reply(t) ==
    /\ running[t] # "none"
    /\ position[t] > Len(Programs[running[t]])
    /\ running' = [running EXCEPT ![t] = "none"]
    /\ position' = [position EXCEPT ![t] = 1]
    /\ UNCHANGED criticalSections
    /\ LocksUnchanged

NextLocks ==
    \E t \in Threads :
        \/ Dispatch(t)
        \/ Acquire(t)
        \/ Release(t)
        \/ EnterFunction(t)
        \/ ReturnFromFunction(t)
        \/ Reply(t)

SpecLocks == InitLocks /\ [][NextLocks]_vars

\* thread t is inside a call of the function: entered, not yet returned
Inside(t, function) == AtOp(t, "return") /\ NextOp(t).arg = function

Holds(t, cs) == criticalSections[cs].owner = {t}

\* C27: every call of GetNotarizationData from a handler of this file is
\* made while the calling thread holds cs_main for the whole call, and
\* GetChainTransfers and GetUnspentChainTransfers hold their locks from the
\* scan of the index until the last entry is resolved.
C27_QueriesRunUnderLock ==
    \A t \in Threads :
        /\ Inside(t, "GetNotarizationData") => Holds(t, "cs_main")
        /\ Inside(t, "scan") => Holds(t, "cs_main") /\ Holds(t, "mempool.cs")
        /\ Inside(t, "unspent scan") => Holds(t, "cs_main")

\* one thread is inside the query while another waits for cs_main
C27_Witness ==
    \E t, u \in Threads :
        /\ t # u
        /\ Inside(t, "GetNotarizationData")
        /\ AtOp(u, "lock")
        /\ NextOp(u).arg = "cs_main"
        /\ ~MayEnter(criticalSections, "cs_main", u)

\* ================ estimateconversion: the notarization of the currency
\* cnd.vtx[cnd.forks[cnd.bestChain].back()] names a record
BestTipInRange(cnd) ==
    /\ cnd.bestChain \in ForkNumbers(cnd)
    /\ Len(cnd.forks[cnd.bestChain + 1]) > 0
    /\ Last(cnd.forks[cnd.bestChain + 1]) \in VtxIndexes(cnd)

\* the branch of estimateconversion for a currency of another system: the
\* index is read when the query returns false. A read out of range is
\* undefined: it traps, or yields a record that is valid or not
ReadBestNotarization ==
    /\ pc = "done"
    /\ estimatePc = "idle"
    /\ ~currencyIsLocal
    /\ ~wantTxOut
    /\ IF retval
       THEN indexRead' = "none" /\ estimatePc' = "threw"
       ELSE IF BestTipInRange(notarizationData)
       THEN indexRead' = "in range" /\ estimatePc' = "estimated"
       ELSE /\ indexRead' = "out of range"
            /\ estimatePc' \in {"trapped", "threw", "estimated"}
    /\ UNCHANGED <<queryVars, priceVars, transferVars, importVars, stateVars,
                   rootVars, nodeVars, lockVars, walletVars>>

NextEstimate ==
    \/ Next
    \/ ReadBestNotarization

SpecEstimate == Init /\ [][NextEstimate]_vars

\* C28: estimateconversion reads cnd.vtx[cnd.forks[cnd.bestChain].back()]
\* only after GetNotarizationData has returned true, and never indexes into
\* a fork index that a failed query left empty.
C28_ReadsOnlyAfterSuccess ==
    /\ indexRead # "none" => retval
    /\ indexRead # "out of range"

\* ================================================ CWalletDB::WriteTxn
MaxRetries == 3          \* "if (retries > 3)"

\* one more round of the loop: the outcome of TxnBegin is noted
Attempted(log, ok) ==
    Append(log, [begin |-> ok, write |-> "none", commit |-> "none"])

Outcome(ok) == IF ok THEN "ok" ELSE "failed"

\* the outcome of Write or TxnCommit noted on the round under way
Noted(log, step, ok) ==
    [log EXCEPT ![Len(log)] =
        IF step = "write" THEN [@ EXCEPT !.write = Outcome(ok)]
        ELSE [@ EXCEPT !.commit = Outcome(ok)]]

\* a loop that never gives up
NeverGivesUp(count) == FALSE

\* the test that ends the loop with false
GivesUp(count) == count > MaxRetries

InitWallet ==
    /\ EarlierIdle
    /\ RootsIdle
    /\ NodesIdle
    /\ ThreadsIdle
    /\ EstimateIdle
    /\ walletPc = "begin"
    /\ txnWrite = FALSE
    /\ retries = 0
    /\ attemptLog = <<>>
    /\ stored = FALSE
    /\ writeResult = FALSE

WalletUnchanged ==
    UNCHANGED <<queryVars, priceVars, transferVars, importVars, stateVars,
                rootVars, nodeVars, lockVars, estimateVars>>

\* if(!TxnBegin()): on failure TxnAbort and on to the test of txnWrite
TxnBegin ==
    /\ walletPc = "begin"
    /\ \E ok \in BOOLEAN :
           /\ attemptLog' = Attempted(attemptLog, ok)
           /\ walletPc' = IF ok THEN "write" ELSE "check"
    /\ UNCHANGED <<txnWrite, retries, stored, writeResult>>
    /\ WalletUnchanged

\* txnWrite = Write(key, value, fOverwrite): on failure TxnAbort
Write ==
    /\ walletPc = "write"
    /\ \E ok \in BOOLEAN :
           /\ txnWrite' = ok
           /\ attemptLog' = Noted(attemptLog, "write", ok)
           /\ walletPc' = IF ok THEN "commit" ELSE "check"
    /\ UNCHANGED <<retries, stored, writeResult>>
    /\ WalletUnchanged

\* if(!TxnCommit()): a failure is logged as a warning
TxnCommit ==
    /\ walletPc = "commit"
    /\ \E ok \in BOOLEAN :
           /\ attemptLog' = Noted(attemptLog, "commit", ok)
           /\ stored' = ok
    /\ walletPc' = "check"
    /\ UNCHANGED <<txnWrite, retries, writeResult>>
    /\ WalletUnchanged

\* the end of the loop body: the retry count, the test of it, and the test
\* of the loop
EndOfRound ==
    /\ walletPc = "check"
    /\ LET count == IF txnWrite THEN retries ELSE retries + 1
       IN  /\ retries' = count
           /\ IF GivesUp(count)
              THEN walletPc' = "returned" /\ writeResult' = FALSE
              ELSE IF txnWrite
              THEN walletPc' = "returned" /\ writeResult' = TRUE
              ELSE walletPc' = "begin" /\ UNCHANGED writeResult
    /\ UNCHANGED <<txnWrite, attemptLog, stored>>
    /\ WalletUnchanged

NextWallet ==
    \/ TxnBegin
    \/ Write
    \/ TxnCommit
    \/ EndOfRound

SpecWallet == InitWallet /\ [][NextWallet]_vars

\* the call runs on one thread: a statement that can be taken is taken
SpecWalletTerminates ==
    InitWallet /\ [][NextWallet]_vars /\ WF_vars(NextWallet)

WriteTxnReturned == walletPc = "returned"

\* the rounds of the loop in which Write succeeded
WrittenRounds == {i \in 1..Len(attemptLog) : attemptLog[i].write = "ok"}

\* C29: WriteTxn returns true only if the key and value were written inside
\* a database transaction that was then committed with success; a failed
\* commit is never reported as success.
C29_TrueOnlyWhenCommitted ==
    (WriteTxnReturned /\ writeResult)
        => /\ attemptLog[Len(attemptLog)].commit = "ok"
           /\ stored

\* C30: WriteTxn terminates for every pattern of failures of TxnBegin and
\* Write: it makes at most 4 attempts, returns false as soon as the retry
\* count exceeds 3, and returns true at the first attempt whose Write
\* succeeds, without a further attempt.
C30_WriteTxnTerminates ==
    /\ [](Len(attemptLog) <= MaxRetries + 1)
    /\ [][(walletPc = "check" /\ ~txnWrite /\ retries = MaxRetries)
             => (walletPc' = "returned" /\ ~writeResult')]_vars
    /\ []((WriteTxnReturned /\ ~writeResult) => retries > MaxRetries)
    /\ [](WrittenRounds \subseteq {Len(attemptLog)})
    /\ []((WriteTxnReturned /\ writeResult) => WrittenRounds = {Len(attemptLog)})
    /\ [][(walletPc = "check" /\ txnWrite)
             => (walletPc' = "returned" /\ writeResult')]_vars
    /\ <>WriteTxnReturned

\* false after four failed attempts, of which some failed at TxnBegin and
\* some at Write
C30_Witness ==
    /\ WriteTxnReturned /\ ~writeResult
    /\ Len(attemptLog) = MaxRetries + 1
    /\ \E i, j \in 1..Len(attemptLog) :
           ~attemptLog[i].begin /\ attemptLog[j].write = "failed"

====
